---- MODULE Spec2Model ----
(***************************************************************************)
(* PlanetSystem3D (src/webgl3d.js) and its host page (src/script.js) as a  *)
(* state machine.                                                          *)
(*                                                                         *)
(* Numbers.  JavaScript Numbers are modelled in fixed point: a real v is   *)
(* the integer round(v * Scale), Scale = 1000 (milli-units: milliradians,  *)
(* milliseconds for seconds, 1/1000 scene units).  Every product and       *)
(* quotient is rounded to the nearest unit, as an IEEE operation rounds to *)
(* the nearest representable value.  Pixel coordinates, canvas sizes and   *)
(* the wall clock (performance.now(), in ms) are plain integers.           *)
(* Matrices are tuples indexed 1..16 (1..9); JavaScript index i is i + 1.  *)
(***************************************************************************)
EXTENDS Integers, Sequences, FiniteSets, TLC

Scale == 10^3

Abs(x) == IF x < 0 THEN -x ELSE x

Sgn(x) == IF x < 0 THEN -1 ELSE IF x > 0 THEN 1 ELSE 0

Max(a, b) == IF a >= b THEN a ELSE b

Min(a, b) == IF a <= b THEN a ELSE b

\* n / d rounded to the nearest integer, halves away from zero (d # 0).
RoundDiv(n, d) == Sgn(n) * Sgn(d) * ((2 * Abs(n) + Abs(d)) \div (2 * Abs(d)))

\* Fixed-point product and quotient.
FMul(a, b) == RoundDiv(a * b, Scale)

FDiv(a, b) == RoundDiv(a * Scale, b)

\* Real literal num/den in fixed point.
Lit(num, den) == RoundDiv(num * Scale, den)

\* Math.PI and its multiples, in milliradians.
Pi == 3142

TwoPi == RoundDiv(62832, 10)

HalfPi == RoundDiv(15708, 10)

\* Math.sin: range reduction to [-pi/2, pi/2], then the Taylor polynomial
\* x - x^3/3! + x^5/5! - x^7/7! in Horner form (r2 = x^2).
SinHorner(r, r2) ==
    FMul(r, Scale - FMul(RoundDiv(r2, 6),
                         Scale - FMul(RoundDiv(r2, 20), Scale - RoundDiv(r2, 42))))

SinPoly(r) == SinHorner(r, FMul(r, r))

Sin(x) ==
    LET m == x % TwoPi
        r == IF m > Pi THEN m - TwoPi ELSE m
        f == IF r > HalfPi THEN Pi - r
             ELSE IF r < -HalfPi THEN -Pi - r
             ELSE r
    IN  Max(-Scale, Min(Scale, SinPoly(f)))     \* Math.sin is within [-1, 1]

\* Math.cos.
Cos(x) == Sin(x + HalfPi)

\* Math.sqrt on a non-negative integer (floor of the root).
RECURSIVE SqrtSearch(_, _, _)
SqrtSearch(n, lo, hi) ==
    IF lo >= hi THEN lo
    ELSE LET mid == (lo + hi + 1) \div 2
         IN  IF mid * mid <= n THEN SqrtSearch(n, mid, hi)
             ELSE SqrtSearch(n, lo, mid - 1)

ISqrt(n) == SqrtSearch(n, 0, 46340)

(***************************************************************************)
(* mat4 / mat3 (src/webgl3d.js:515-610)                                    *)
(***************************************************************************)
\* new Float32Array(n): all zeros.
Zeros(n) == [i \in 1..n |-> 0]

mat4_create == Zeros(16)

mat3_create == Zeros(9)

mat4_identity ==
    <<Scale, 0, 0, 0,  0, Scale, 0, 0,  0, 0, Scale, 0,  0, 0, 0, Scale>>

PerspectiveF(f, aspect, near, far) ==
    <<FDiv(f, aspect), 0, 0, 0,
      0, f, 0, 0,
      0, 0, FDiv(far + near, near - far), -Scale,
      0, 0, FDiv(2 * FMul(far, near), near - far), 0>>

\* f = 1 / tan(fovy / 2).
mat4_perspective(fovy, aspect, near, far) ==
    PerspectiveF(FDiv(Cos(RoundDiv(fovy, 2)), Sin(RoundDiv(fovy, 2))), aspect, near, far)

\* Vector helpers for the inlined arithmetic of lookAt.
Minus(u, v) == <<u[1] - v[1], u[2] - v[2], u[3] - v[3]>>

Cross(u, v) ==
    << FMul(u[2], v[3]) - FMul(u[3], v[2]),
       FMul(u[3], v[1]) - FMul(u[1], v[3]),
       FMul(u[1], v[2]) - FMul(u[2], v[1]) >>

Dot(u, v) == FMul(u[1], v[1]) + FMul(u[2], v[2]) + FMul(u[3], v[3])

Length(v) == ISqrt(v[1] * v[1] + v[2] * v[2] + v[3] * v[3])

\* v * (1 / len); lookAt zeroes the x axis when its length is 0 (line 543).
Scaled(v, len) ==
    IF len = 0 THEN <<0, 0, 0>>
    ELSE <<FDiv(v[1], len), FDiv(v[2], len), FDiv(v[3], len)>>

Normalize(v) == Scaled(v, Length(v))

LookAtBasis(x, y, z, eye) ==
    <<x[1], y[1], z[1], 0,
      x[2], y[2], z[2], 0,
      x[3], y[3], z[3], 0,
      -Dot(x, eye), -Dot(y, eye), -Dot(z, eye), Scale>>

LookAtXZ(x, z, eye) == LookAtBasis(x, Cross(z, x), z, eye)

LookAtZ(z, eye, up) == LookAtXZ(Normalize(Cross(up, z)), z, eye)

\* The value of 0 * Infinity and of every Number computed from it: a number
\* outside the range of the fixed-point values.
NaN == -2147483647

\* The z axis is scaled by 1 / Math.sqrt(z.z) without a guard (lines
\* 537-539).  With eye = center that is 0 * Infinity = NaN on each
\* component; the cross product x is then NaN of length NaN, which the
\* guard of line 543 zeroes, and y, z and their dot products with eye are
\* NaN (lines 546-555).
mat4_lookAt(eye, center, up) ==
    IF Length(Minus(eye, center)) = 0
    THEN <<0, NaN, NaN, 0,  0, NaN, NaN, 0,  0, NaN, NaN, 0,  0, NaN, NaN, Scale>>
    ELSE LookAtZ(Normalize(Minus(eye, center)), eye, up)

\* Only out[12..15] are written; the rest of out (= a at every call site) stays.
mat4_translate(a, v) ==
    [a EXCEPT
        ![13] = FMul(a[1], v[1]) + FMul(a[5], v[2]) + FMul(a[9], v[3]) + a[13],
        ![14] = FMul(a[2], v[1]) + FMul(a[6], v[2]) + FMul(a[10], v[3]) + a[14],
        ![15] = FMul(a[3], v[1]) + FMul(a[7], v[2]) + FMul(a[11], v[3]) + a[15],
        ![16] = FMul(a[4], v[1]) + FMul(a[8], v[2]) + FMul(a[12], v[3]) + a[16]]

RotateYBy(a, s, c) ==
    [a EXCEPT
        ![1]  = FMul(a[1], c) - FMul(a[9], s),
        ![2]  = FMul(a[2], c) - FMul(a[10], s),
        ![3]  = FMul(a[3], c) - FMul(a[11], s),
        ![4]  = FMul(a[4], c) - FMul(a[12], s),
        ![9]  = FMul(a[1], s) + FMul(a[9], c),
        ![10] = FMul(a[2], s) + FMul(a[10], c),
        ![11] = FMul(a[3], s) + FMul(a[11], c),
        ![12] = FMul(a[4], s) + FMul(a[12], c)]

mat4_rotateY(a, rad) == RotateYBy(a, Sin(rad), Cos(rad))

mat4_scale(a, v) ==
    [a EXCEPT
        ![1] = FMul(a[1], v[1]),  ![2]  = FMul(a[2], v[1]),
        ![3] = FMul(a[3], v[1]),  ![4]  = FMul(a[4], v[1]),
        ![5] = FMul(a[5], v[2]),  ![6]  = FMul(a[6], v[2]),
        ![7] = FMul(a[7], v[2]),  ![8]  = FMul(a[8], v[2]),
        ![9] = FMul(a[9], v[3]),  ![10] = FMul(a[10], v[3]),
        ![11] = FMul(a[11], v[3]), ![12] = FMul(a[12], v[3])]

\* The determinant test of normalFromMat4 (line 594).
mat3_det(a) ==
    LET b01 == FMul(a[11], a[6]) - FMul(a[7], a[10])
        b11 == FMul(a[7], a[9]) - FMul(a[11], a[5])
        b21 == FMul(a[10], a[5]) - FMul(a[6], a[9])
    IN  FMul(a[1], b01) + FMul(a[2], b11) + FMul(a[3], b21)

\* Lines 596-608: the entries written, given the cofactors and the determinant.
NormalEntries(a, b01, b11, b21, det) ==
    <<FDiv(b01, det),
      FDiv(FMul(a[3], a[10]) - FMul(a[11], a[2]), det),
      FDiv(FMul(a[7], a[2]) - FMul(a[3], a[6]), det),
      FDiv(b11, det),
      FDiv(FMul(a[11], a[1]) - FMul(a[3], a[9]), det),
      FDiv(FMul(a[3], a[5]) - FMul(a[7], a[1]), det),
      FDiv(b21, det),
      FDiv(FMul(a[2], a[9]) - FMul(a[10], a[1]), det),
      FDiv(FMul(a[6], a[1]) - FMul(a[2], a[5]), det)>>

NormalFromCofactors(a, b01, b11, b21, det) ==
    IF det = 0 THEN <<>> ELSE <<NormalEntries(a, b01, b11, b21, det)>>

\* normalFromMat4(out, a): the value it returns, <<>> for null, <<m>> for out.
mat3_normalFromMat4_returns(out, a) ==
    NormalFromCofactors(a,
        FMul(a[11], a[6]) - FMul(a[7], a[10]),
        FMul(a[7], a[9]) - FMul(a[11], a[5]),
        FMul(a[10], a[5]) - FMul(a[6], a[9]),
        mat3_det(a))

\* The content of the out buffer after normalFromMat4(out, a): untouched when
\* the function returns null before writing.
OutAfter(out, r) == IF r = <<>> THEN out ELSE r[1]

mat3_normalFromMat4(out, a) == OutAfter(out, mat3_normalFromMat4_returns(out, a))

(***************************************************************************)
(* Bounds of the model and the inputs the environment draws from.          *)
(***************************************************************************)
\* Input events (mouse, wheel, dblclick, resize, explore click) delivered.
MaxEvents == 2

\* Animation frames run after the one the constructor runs.
MaxFrames == 2

\* Wheel and double-click events of the zoom specification, enough to reach
\* both ends of the distance range from the default distance.
MaxZoomEvents == 14

\* Frames of the zoom specification.
MaxZoomFrames == 1

\* Input events of the damping specification.
MaxDampEvents == 2

\* Frames after the last input within which the damped values settle.
SettleFrames == 70

\* The largest |target - current| that a damping step rounds to no change.
DampEps == 4

\* Temperatures in kelvin given to the colour functions: the thresholds of
\* both, the values between them, and one kelvin and one thousandth either
\* side of each.
ColourKelvins == {6000, 5000, 4000, 3000, 1000, 500, 273, 200,
                  6500, 4500, 2500, 1200, 250, 0}

ColourTemps ==
    {(k + d) * Scale + e : k \in ColourKelvins, d \in {-1, 0, 1}, e \in {-1, 0, 1}}

\* The largest segments and rings createSphere is called with on its own.
MaxSegments == 6

MaxRings == 5

\* period_days and a_over_rstar of the records whose position is computed on
\* its own; 0 is also what an absent field reads as under `||`.
OrbitPeriods == {0, 1, 2471, Scale, 37426, 290 * Scale}

OrbitRatios == {0, 163, 5 * Scale, 20 * Scale, 60 * Scale}

\* Target distances before a wheel event handled on its own.
WheelDistances == {3 * Scale, 3200, 12 * Scale, 38 * Scale, 40 * Scale}

\* performance.now() when the page constructs the engine, in ms.
StartTimes == {120}

\* Wall-clock time between two animation frames, in ms.
FrameDeltas == {16, 33}

\* clientX / clientY of mouse events, in pixels.
Pointers == {<<100, 100>>, <<160, 80>>}

\* deltaY of wheel events.
WheelDeltas == {-100, 0, 100}

\* getBoundingClientRect() size of the canvas and window.devicePixelRatio in
\* percent (0 stands for an absent ratio, which resize() replaces by 1): a
\* rectangle whose width times 1.15 is the double just below 115, one whose
\* scaled sides end in half a pixel, and one that scales to whole pixels.
Layouts == {[w |-> 100, h |-> 80, dpr |-> 115],
            [w |-> 321, h |-> 201, dpr |-> 150],
            [w |-> 400, h |-> 300, dpr |-> 0]}

\* The canvas element's width and height attributes before any resize()
\* (the HTML default of a canvas).
DefaultCanvas == [width |-> 300, height |-> 150, cursor |-> ""]

(***************************************************************************)
(* Planet records (src/script.js:29-47, 64-82): the fields the program     *)
(* reads.  label is the CSV's first column.                                *)
(***************************************************************************)
Planet(label, id, period, aor, radius, eqt, teff, srad) ==
    [label |-> label, object_id |-> id, period_days |-> period,
     a_over_rstar |-> aor, radius_rearth |-> radius, eq_temp_k |-> eqt,
     teff_k |-> teff, star_rad_rsun |-> srad]

\* The fallback list of loadCSVData's catch branch.
FallbackData ==
    << Planet("TOI-700 d", "TOI-700", 37426, 163, 1070, 268 * Scale,
              3480 * Scale, 420) >>

\* Rows of a fetched CSV after the split and parseFloat(...) || 0 of lines
\* 26-47: a confirmed row whose period did not parse, a confirmed hot
\* Jupiter, a false positive (label 0), a confirmed temperate planet, and
\* confirmed rows without a radius and without a stellar temperature.
CsvRows ==
    << Planet("1", "K00004.01", 0, 20 * Scale, 1 * Scale, 600 * Scale,
              5500 * Scale, 1 * Scale),
       Planet("1", "K00001.01", 2471, 5 * Scale, 13 * Scale, 1400 * Scale,
              6200 * Scale, 1500),
       Planet("0", "K00003.01", 12 * Scale, 20 * Scale, 1 * Scale, 600 * Scale,
              5500 * Scale, 1 * Scale),
       Planet("1", "K00002.01", 290 * Scale, 60 * Scale, 2400, 250 * Scale,
              4500 * Scale, 0),
       Planet("1", "K00005.01", 3 * Scale, 20 * Scale, 0, 600 * Scale,
              5500 * Scale, 1 * Scale),
       Planet("1", "K00006.01", 3 * Scale, 20 * Scale, 1 * Scale, 600 * Scale,
              0, 1 * Scale) >>

\* JavaScript null / a value, for fields that hold either.
Null == <<>>

Some(v) == <<v>>

(***************************************************************************)
(* State.                                                                  *)
(***************************************************************************)
VARIABLES
    now,      \* performance.now(), ms
    page,     \* script.js globals and what the page shows
    layout,   \* the canvas's bounding rect and the device pixel ratio
    canvas,   \* the canvas element: width, height, style.cursor
    sys,      \* the PlanetSystem3D instance
    gl,       \* the WebGL context's state
    raf,      \* animation-frame callbacks requested and not yet run
    trace,    \* the steps of the latest animate() call, in order
    lastOp,   \* the handler that ran last
    events,   \* input events delivered so far
    frames,   \* animation frames run so far after construction
    probe     \* a function of the program called on its own: name, argument, result

vars == <<now, page, layout, canvas, sys, gl, raf, trace, lastOp, events, frames,
          probe>>

\* One step of animate(): its name and, for drawStar / drawPlanet, the record
\* it was called with.
Step(name) == [step |-> name, arg |-> Null]

StepArg(name, planet) == [step |-> name, arg |-> Some(planet)]

(***************************************************************************)
(* The WebGL context.                                                      *)
(***************************************************************************)
AttribOff == [enabled |-> FALSE, buffer |-> 0, size |-> 0]

\* A fresh context on a canvas of the given size: viewport = drawing buffer.
GLContext(cv) ==
    [viewport    |-> <<0, 0, cv.width, cv.height>>,
     buffers     |-> << >>,
     arrayBuffer |-> 0,
     elementBuffer |-> 0,
     attrib      |-> [position |-> AttribOff, normal |-> AttribOff, uv |-> AttribOff],
     uniforms    |-> [modelMatrix |-> mat4_create, viewMatrix |-> mat4_create,
                      projectionMatrix |-> mat4_create, normalMatrix |-> mat3_create,
                      color |-> <<0, 0, 0>>, ambientColor |-> <<0, 0, 0>>,
                      shininess |-> 0, lightPosition |-> <<0, 0, 0>>, time |-> 0],
     framebuffer |-> << >>]

\* gl.createBuffer(): a handle not in use; gl.buffers maps live handles 1..n
\* to the number of elements uploaded.
gl_createBuffer(g) == Len(g.buffers) + 1

gl_bufferData(g, h, n) ==
    [g EXCEPT !.buffers =
        IF h = Len(g.buffers) + 1 THEN Append(g.buffers, n)
        ELSE [g.buffers EXCEPT ![h] = n]]

\* A deleteBuffer that frees nothing.
gl_deleteBuffer_Leaks(g, h) == g

\* gl.deleteBuffer(h) for the most recently created buffer: the context
\* resets every binding to the deleted buffer, those of the vertex
\* attributes included (an attribute keeps its enabled flag and size).
gl_deleteBuffer(g, h) ==
    [g EXCEPT !.buffers = SubSeq(g.buffers, 1, h - 1),
              !.arrayBuffer = IF g.arrayBuffer = h THEN 0 ELSE g.arrayBuffer,
              !.elementBuffer = IF g.elementBuffer = h THEN 0 ELSE g.elementBuffer,
              !.attrib = [a \in DOMAIN g.attrib |->
                            IF g.attrib[a].buffer = h
                            THEN [g.attrib[a] EXCEPT !.buffer = 0]
                            ELSE g.attrib[a]]]

gl_enableAttrib(g, a, h, size) ==
    [g EXCEPT !.attrib[a] = [enabled |-> TRUE, buffer |-> h, size |-> size],
              !.arrayBuffer = h]

gl_disableAttrib(g, a) == [g EXCEPT !.attrib[a].enabled = FALSE]

\* A draw call: what the GPU reads at that moment.
gl_draw(g, call, count) ==
    [g EXCEPT !.framebuffer = Append(g.framebuffer,
        [call |-> call, count |-> count, attrib |-> g.attrib,
         uniforms |-> g.uniforms, live |-> Len(g.buffers)])]

(***************************************************************************)
(* PlanetSystem3D (src/webgl3d.js:2-512).  The operators below take and    *)
(* return a machine m = [sys, gl, trace, raf]: the instance, the context,  *)
(* the steps of the running animate() call and the pending callbacks.      *)
(***************************************************************************)
\* The fields the constructor sets (lines 12-63), before init().
NewSystem ==
    [gl |-> TRUE,
     vertexBuffer |-> 0, normalBuffer |-> 0, uvBuffer |-> 0, indexBuffer |-> 0,
     vertexCount |-> 0,
     time |-> 0,
     lastFrameTime |-> 0,
     orbitSpeed |-> 10 * Scale,
     cameraControls |->
        [distance |-> 12 * Scale, minDistance |-> 3 * Scale,
         maxDistance |-> 40 * Scale, azimuth |-> 0, elevation |-> Lit(3, 10),
         targetAzimuth |-> 0, targetElevation |-> Lit(3, 10),
         targetDistance |-> 12 * Scale, damping |-> Lit(1, 10),
         autoRotate |-> TRUE, autoRotateSpeed |-> Lit(15, 100)],
     mouse |-> [isDown |-> FALSE, lastX |-> 0, lastY |-> 0,
                sensitivity |-> Lit(5, 1000)],
     camera |-> [position |-> <<8 * Scale, 5 * Scale, 8 * Scale>>,
                 target |-> <<0, 0, 0>>, up |-> <<0, Scale, 0>>,
                 fov |-> 80 * Scale, near |-> Lit(1, 10), far |-> 500 * Scale],
     modelMatrix |-> mat4_create,
     viewMatrix |-> mat4_create,
     projectionMatrix |-> mat4_create,
     normalMatrix |-> mat3_create,
     currentPlanet |-> Null]

\* The instance the constructor leaves when getContext returns null (lines
\* 7-10): only canvas and gl are set, init() and setupControls() never run.
\* The other fields are undefined and nothing reads them; they are shown here
\* with the values NewSystem would give them.
DeadSystem == [NewSystem EXCEPT !.gl = FALSE]

\* Lines 277-280.
EmptyMesh == [positions |-> << >>, normals |-> << >>, uvs |-> << >>, indices |-> << >>]

\* The arrays of mesh followed by what later passes pushed.
Pushed(mesh, more) ==
    [positions |-> mesh.positions \o more.positions,
     normals   |-> mesh.normals \o more.normals,
     uvs       |-> mesh.uvs \o more.uvs,
     indices   |-> mesh.indices \o more.indices]

\* createSphere lines 288-295: what one pass of the inner vertex loop pushes,
\* given sin(lat), cos(lat) and the longitude.
VertexPass(radius, z, zr, lng, u, v) ==
    [EmptyMesh EXCEPT
        !.positions = << FMul(FMul(Cos(lng), zr), radius), FMul(z, radius),
                         FMul(FMul(Sin(lng), zr), radius) >>,
        !.normals   = << FMul(Cos(lng), zr), z, FMul(Sin(lng), zr) >>,
        !.uvs       = << u, v >>]

\* Lines 287-296: what the passes j = lo .. hi of the inner loop push, in
\* order, for the ring at latitude lat.
RECURSIVE VertexRing(_, _, _, _, _, _)
VertexRing(radius, segments, lat, v, lo, hi) ==
    IF lo > hi THEN EmptyMesh
    ELSE IF lo = hi
    THEN VertexPass(radius, Sin(lat), Cos(lat),
                    FMul(TwoPi, FDiv(lo * Scale, segments * Scale)),
                    Scale - FDiv(lo * Scale, segments * Scale), v)
    ELSE Pushed(VertexRing(radius, segments, lat, v, lo, (lo + hi) \div 2),
                VertexRing(radius, segments, lat, v, (lo + hi) \div 2 + 1, hi))

\* Lines 282-297: what the passes i = lo .. hi of the outer loop push, the
\* inner loop running j = 0 .. lastJ.
RECURSIVE VertexLoops(_, _, _, _, _, _)
VertexLoops(radius, segments, rings, lastJ, lo, hi) ==
    IF lo > hi THEN EmptyMesh
    ELSE IF lo = hi
    THEN VertexRing(radius, segments,
                    FMul(Pi, FDiv(lo * Scale, rings * Scale) - Lit(5, 10)),
                    Scale - FDiv(lo * Scale, rings * Scale), 0, lastJ)
    ELSE Pushed(VertexLoops(radius, segments, rings, lastJ, lo, (lo + hi) \div 2),
                VertexLoops(radius, segments, rings, lastJ, (lo + hi) \div 2 + 1, hi))

\* Lines 301-305: the two triangles of the quad whose corner is `first`.
QuadPass(first, second) ==
    [EmptyMesh EXCEPT !.indices = << first, second, first + 1,
                                    second, second + 1, first + 1 >>]

\* Lines 299-306: the passes j = lo .. hi of the inner index loop.
RECURSIVE IndexRing(_, _, _, _)
IndexRing(segments, i, lo, hi) ==
    IF lo > hi THEN EmptyMesh
    ELSE IF lo = hi
    THEN QuadPass(i * (segments + 1) + lo, i * (segments + 1) + lo + segments + 1)
    ELSE Pushed(IndexRing(segments, i, lo, (lo + hi) \div 2),
                IndexRing(segments, i, (lo + hi) \div 2 + 1, hi))

\* Lines 298-307: the passes i = lo .. hi of the outer index loop, the inner
\* loop running j = 0 .. segments - 1.
RECURSIVE IndexLoops(_, _, _, _)
IndexLoops(segments, rings, lo, hi) ==
    IF lo > hi THEN EmptyMesh
    ELSE IF lo = hi THEN IndexRing(segments, lo, 0, segments - 1)
    ELSE Pushed(IndexLoops(segments, rings, lo, (lo + hi) \div 2),
                IndexLoops(segments, rings, (lo + hi) \div 2 + 1, hi))

\* createSphere whose inner vertex loop stops before j = segments.
createSphere_OpenSeam(radius, segments, rings) ==
    Pushed(VertexLoops(radius, segments, rings, segments - 1, 0, rings),
           IndexLoops(segments, rings, 0, rings - 1))

\* Lines 282-308: the vertex loops i = 0 .. rings, j = 0 .. segments, then
\* the index loops i = 0 .. rings - 1.
createSphere(radius, segments, rings) ==
    Pushed(VertexLoops(radius, segments, rings, segments, 0, rings),
           IndexLoops(segments, rings, 0, rings - 1))

\* setupBuffers lines 257-273, given the mesh of line 255.
UploadSphere(m, sphere) ==
    LET v  == gl_createBuffer(m.gl)
        g1 == gl_bufferData([m.gl EXCEPT !.arrayBuffer = v], v, Len(sphere.positions))
        n  == gl_createBuffer(g1)
        g2 == gl_bufferData([g1 EXCEPT !.arrayBuffer = n], n, Len(sphere.normals))
        u  == gl_createBuffer(g2)
        g3 == gl_bufferData([g2 EXCEPT !.arrayBuffer = u], u, Len(sphere.uvs))
        i  == gl_createBuffer(g3)
        g4 == gl_bufferData([g3 EXCEPT !.elementBuffer = i], i, Len(sphere.indices))
    IN  [m EXCEPT !.gl = g4,
                  !.sys.vertexBuffer = v, !.sys.normalBuffer = n,
                  !.sys.uvBuffer = u, !.sys.indexBuffer = i,
                  !.sys.vertexCount = Len(sphere.indices)]

setupBuffers(m) == UploadSphere(m, createSphere(Scale, 64, 32))

\* Damping with the sign of the step reversed: the values move away.
Damp_Away(cc) ==
    [cc EXCEPT
        !.azimuth   = cc.azimuth - FMul(cc.targetAzimuth - cc.azimuth, cc.damping),
        !.elevation = cc.elevation - FMul(cc.targetElevation - cc.elevation, cc.damping),
        !.distance  = cc.distance - FMul(cc.targetDistance - cc.distance, cc.damping)]

\* Damping that moves the distance one and a half times the gap.
Damp_Overshoots(cc) ==
    [cc EXCEPT
        !.azimuth   = cc.azimuth + FMul(cc.targetAzimuth - cc.azimuth, cc.damping),
        !.elevation = cc.elevation + FMul(cc.targetElevation - cc.elevation, cc.damping),
        !.distance  = cc.distance + FMul(cc.targetDistance - cc.distance, 15 * cc.damping)]

\* Lines 322-324: the damped values move a fraction `damping` to the targets.
Damp(cc) ==
    [cc EXCEPT
        !.azimuth   = cc.azimuth + FMul(cc.targetAzimuth - cc.azimuth, cc.damping),
        !.elevation = cc.elevation + FMul(cc.targetElevation - cc.elevation, cc.damping),
        !.distance  = cc.distance + FMul(cc.targetDistance - cc.distance, cc.damping)]

\* Lines 327-330: auto-rotation retargets azimuth and elevation from the clock.
AutoRotate(cc, time) ==
    IF cc.autoRotate
    THEN [cc EXCEPT
            !.targetAzimuth = FMul(time, cc.autoRotateSpeed) * 2,
            !.targetElevation = Lit(3, 10) + FMul(Sin(FMul(time, Lit(1, 10))), Lit(15, 100))]
    ELSE cc

\* Lines 333-335: spherical to Cartesian.
CameraPosition(cc) ==
    << FMul(FMul(cc.distance, Cos(cc.elevation)), Cos(cc.azimuth)),
       FMul(cc.distance, Sin(cc.elevation)),
       FMul(FMul(cc.distance, Cos(cc.elevation)), Sin(cc.azimuth)) >>

\* Lines 337-341, given the camera controls after lines 322-330.
MoveCamera(m, cc, pos) ==
    [m EXCEPT !.sys.cameraControls = cc,
              !.sys.camera.position = pos,
              !.sys.viewMatrix = mat4_lookAt(pos, m.sys.camera.target, m.sys.camera.up),
              !.trace = Append(m.trace, Step("updateCamera"))]

SteerCamera(m, cc) == MoveCamera(m, cc, CameraPosition(cc))

updateCamera(m) == SteerCamera(m, AutoRotate(Damp(m.sys.cameraControls), m.sys.time))

updateProjection(m, cv) ==
    LET aspect == FDiv(cv.width * Scale, cv.height * Scale)
    IN  [m EXCEPT !.sys.projectionMatrix =
                      mat4_perspective(RoundDiv(m.sys.camera.fov * Pi, 180 * Scale),
                                       aspect, m.sys.camera.near, m.sys.camera.far),
                  !.trace = Append(m.trace, Step("updateProjection"))]

\* setPlanet that keeps a record once one is set.
setPlanet_KeepsFirst(s, planet) ==
    IF s.currentPlanet = Null THEN [s EXCEPT !.currentPlanet = Some(planet)] ELSE s

setPlanet(s, planet) == [s EXCEPT !.currentPlanet = Some(planet)]

\* getStarColor with thresholds that admit the threshold itself.
getStarColor_AtOrAbove(teff) ==
    IF teff >= 6000 * Scale THEN <<Scale, Scale, Scale>>
    ELSE IF teff >= 5000 * Scale THEN <<Scale, Scale, Lit(7, 10)>>
    ELSE IF teff >= 4000 * Scale THEN <<Scale, Lit(6, 10), Lit(3, 10)>>
    ELSE IF teff >= 3000 * Scale THEN <<Scale, Lit(3, 10), Lit(3, 10)>>
    ELSE <<Lit(8, 10), Lit(2, 10), Lit(2, 10)>>

getStarColor(teff) ==
    IF teff > 6000 * Scale THEN <<Scale, Scale, Scale>>
    ELSE IF teff > 5000 * Scale THEN <<Scale, Scale, Lit(7, 10)>>
    ELSE IF teff > 4000 * Scale THEN <<Scale, Lit(6, 10), Lit(3, 10)>>
    ELSE IF teff > 3000 * Scale THEN <<Scale, Lit(3, 10), Lit(3, 10)>>
    ELSE <<Lit(8, 10), Lit(2, 10), Lit(2, 10)>>

getPlanetColor(eqTemp) ==
    IF eqTemp > 1000 * Scale THEN <<Scale, Lit(4, 10), Lit(4, 10)>>
    ELSE IF eqTemp > 500 * Scale THEN <<Scale, Lit(6, 10), Lit(3, 10)>>
    ELSE IF eqTemp > 273 * Scale THEN <<Lit(4, 10), Lit(6, 10), Scale>>
    ELSE IF eqTemp > 200 * Scale THEN <<Lit(6, 10), Lit(6, 10), Scale>>
    ELSE <<Lit(7, 10), Lit(7, 10), Lit(7, 10)>>

\* JavaScript's  v || d  on a number.
OrElse(v, d) == IF v = 0 THEN d ELSE v

\* A drawSphere that sets up the position attribute only.
drawSphere_PositionOnly(m) ==
    LET g1 == gl_enableAttrib(m.gl, "position", m.sys.vertexBuffer, 3)
        g4 == [g1 EXCEPT !.elementBuffer = m.sys.indexBuffer]
    IN  [m EXCEPT !.gl = gl_draw(g4, "drawElements", m.sys.vertexCount),
                  !.trace = Append(m.trace, Step("drawElements"))]

drawSphere(m) ==
    LET g1 == gl_enableAttrib(m.gl, "position", m.sys.vertexBuffer, 3)
        g2 == gl_enableAttrib(g1, "normal", m.sys.normalBuffer, 3)
        g3 == gl_enableAttrib(g2, "uv", m.sys.uvBuffer, 2)
        g4 == [g3 EXCEPT !.elementBuffer = m.sys.indexBuffer]
    IN  [m EXCEPT !.gl = gl_draw(g4, "drawElements", m.sys.vertexCount),
                  !.trace = Append(m.trace, Step("drawElements"))]

\* drawStar lines 361-375, given the model matrix of lines 356-359 and the
\* normal matrix that line 361 leaves in this.normalMatrix.
DrawStarWith(m, planet, model, normal, color) ==
    drawSphere(
      [m EXCEPT !.sys.modelMatrix = model,
                !.sys.normalMatrix = normal,
                !.gl.uniforms = [m.gl.uniforms EXCEPT
                    !.modelMatrix = model,
                    !.viewMatrix = m.sys.viewMatrix,
                    !.projectionMatrix = m.sys.projectionMatrix,
                    !.normalMatrix = normal,
                    !.color = color,
                    !.ambientColor = color,
                    !.shininess = 1000 * Scale,
                    !.lightPosition = <<0, 0, 0>>,
                    !.time = m.sys.time],
                !.trace = Append(m.trace, StepArg("drawStar", planet))])

DrawStarModel(m, planet, model) ==
    DrawStarWith(m, planet, model, mat3_normalFromMat4(m.sys.normalMatrix, model),
                 getStarColor(planet.teff_k))

\* The star's scale without the clamp to [0.5, 1.2].
StarSize_Unclamped(planet) == FMul(OrElse(planet.star_rad_rsun, Scale), Lit(3, 10))

\* Line 357.
StarSize(planet) ==
    Max(Lit(5, 10), Min(Lit(12, 10), FMul(OrElse(planet.star_rad_rsun, Scale), Lit(3, 10))))

\* Lines 356-359.
StarModel(planet, time) ==
    mat4_rotateY(mat4_scale(mat4_identity,
                            <<StarSize(planet), StarSize(planet), StarSize(planet)>>),
                 FMul(time, 0))

drawStar(m, planet) == DrawStarModel(m, planet, StarModel(planet, m.sys.time))

OrbitPoints == 128

drawOrbit(m, radius) ==
    LET n  == 3 * (OrbitPoints + 1)
        h  == gl_createBuffer(m.gl)
        g1 == gl_bufferData([m.gl EXCEPT !.arrayBuffer = h], h, n)
        g2 == [g1 EXCEPT !.uniforms = [g1.uniforms EXCEPT
                    !.modelMatrix = mat4_identity,
                    !.color = <<Scale, Scale, Scale>>,
                    !.shininess = 100 * Scale,
                    !.ambientColor = <<Scale, Scale, Scale>>]]
        g3 == gl_enableAttrib(g2, "position", h, 3)
        g4 == gl_disableAttrib(gl_disableAttrib(g3, "normal"), "uv")
        g5 == gl_draw(g4, "drawArrays", n \div 3)
    IN  [m EXCEPT !.sys.modelMatrix = mat4_identity,
                  !.gl = gl_deleteBuffer(g5, h),
                  !.trace = m.trace \o <<Step("drawOrbit"), Step("drawArrays")>>]

\* Lines 381-386: the planet's place on its orbit at the current clock.
OrbitRadius(planet) ==
    Max(3 * Scale, Min(7 * Scale, FMul(OrElse(planet.a_over_rstar, 10 * Scale), Lit(2, 10))))

\* The position with sine and cosine exchanged.
PlanetPosition_SineFirst(planet, time, orbitSpeed) ==
    << FMul(Sin(FDiv(FMul(time, orbitSpeed), OrElse(planet.period_days, Scale))),
            OrbitRadius(planet)),
       0,
       FMul(Cos(FDiv(FMul(time, orbitSpeed), OrElse(planet.period_days, Scale))),
            OrbitRadius(planet)) >>

PlanetPosition(planet, time, orbitSpeed) ==
    LET orbitAngle == FDiv(FMul(time, orbitSpeed), OrElse(planet.period_days, Scale))
    IN  << FMul(Cos(orbitAngle), OrbitRadius(planet)), 0,
           FMul(Sin(orbitAngle), OrbitRadius(planet)) >>

\* Line 391.
PlanetSize(planet) ==
    Max(Lit(2, 10), Min(Lit(8, 10), FMul(OrElse(planet.radius_rearth, Scale), Lit(1, 10))))

\* Lines 388-393.
PlanetModel(planet, time, orbitSpeed) ==
    mat4_rotateY(
      mat4_scale(mat4_translate(mat4_identity, PlanetPosition(planet, time, orbitSpeed)),
                 <<PlanetSize(planet), PlanetSize(planet), PlanetSize(planet)>>),
      FMul(time, 0))

\* drawPlanet lines 395-407.
DrawPlanetWith(m, planet, model, normal, color) ==
    drawSphere(
      [m EXCEPT !.sys.modelMatrix = model,
                !.sys.normalMatrix = normal,
                !.gl.uniforms = [m.gl.uniforms EXCEPT
                    !.modelMatrix = model,
                    !.normalMatrix = normal,
                    !.color = color,
                    !.ambientColor = [i \in 1..3 |-> FMul(color[i], Lit(2, 10))],
                    !.shininess = 100 * Scale,
                    !.lightPosition = <<0, 0, 0>>,
                    !.time = m.sys.time],
                !.trace = Append(m.trace, StepArg("drawPlanet", planet))])

DrawPlanetModel(m, planet, model) ==
    DrawPlanetWith(m, planet, model, mat3_normalFromMat4(m.sys.normalMatrix, model),
                   getPlanetColor(planet.eq_temp_k))

drawPlanet(m, planet) ==
    drawOrbit(DrawPlanetModel(m, planet,
                              PlanetModel(planet, m.sys.time, m.sys.orbitSpeed)),
              OrbitRadius(planet))

\* Lines 484-488: the clock.  tnow is performance.now() at the call.
AdvanceClock(m, tnow) ==
    LET deltaTime == tnow - m.sys.lastFrameTime    \* ms = seconds * Scale
    IN  [m EXCEPT !.sys.lastFrameTime = tnow,
                  !.sys.time = m.sys.time + deltaTime,
                  !.trace = Append(m.trace, Step("time"))]

gl_clear(m) ==
    [m EXCEPT !.gl.framebuffer = << >>,
              !.trace = Append(m.trace, Step("clear"))]

\* Lines 495-498.  drawStar and drawPlanet return at once on a null record
\* (lines 354, 379); animate never calls them with one.
\* A scene drawn without its star.
DrawScene_PlanetOnly(m) ==
    IF m.sys.currentPlanet # Null
    THEN drawPlanet(m, m.sys.currentPlanet[1])
    ELSE m

DrawScene(m) ==
    IF m.sys.currentPlanet # Null
    THEN drawPlanet(drawStar(m, m.sys.currentPlanet[1]), m.sys.currentPlanet[1])
    ELSE m

\* animate() without line 500: the frame requests no further callback.
requestAnimationFrame_Dropped(m) == m

requestAnimationFrame(m) ==
    [m EXCEPT !.raf = m.raf + 1,
              !.trace = Append(m.trace, Step("requestAnimationFrame"))]

\* animate() with the clear moved after the draws.
animate_ClearLast(m, cv, tnow) ==
    requestAnimationFrame(
      gl_clear(
        DrawScene(
          updateProjection(
            updateCamera(
              AdvanceClock([m EXCEPT !.trace = << >>], tnow)), cv))))

animate(m, cv, tnow) ==
    requestAnimationFrame(
      DrawScene(
        gl_clear(
          updateProjection(
            updateCamera(
              AdvanceClock([m EXCEPT !.trace = << >>], tnow)), cv))))

\* init() (lines 69-74): shaders, buffers, GL state, then the first frame.
init(m, cv, tnow) == animate(setupBuffers(m), cv, tnow)

(***************************************************************************)
(* The listeners of setupControls (lines 76-145), on [sys, canvas].        *)
(***************************************************************************)
\* The first mousedown listener (lines 78-84).
OnMouseDown1(s, e) ==
    [s EXCEPT !.mouse.isDown = TRUE, !.mouse.lastX = e[1], !.mouse.lastY = e[2]]

\* The second mousedown listener (lines 86-93).
OnMouseDown2(s, e) ==
    [s EXCEPT !.mouse.isDown = TRUE, !.mouse.lastX = e[1], !.mouse.lastY = e[2],
              !.cameraControls.autoRotate = FALSE]

\* A drag handler that also moves the damped azimuth onto its target.
OnMouseMove_Snaps(s, e) ==
    IF ~s.mouse.isDown THEN s
    ELSE [s EXCEPT
            !.cameraControls.targetAzimuth =
                s.cameraControls.targetAzimuth - (e[1] - s.mouse.lastX) * s.mouse.sensitivity,
            !.cameraControls.azimuth =
                s.cameraControls.targetAzimuth - (e[1] - s.mouse.lastX) * s.mouse.sensitivity,
            !.cameraControls.targetElevation =
                s.cameraControls.targetElevation + (e[2] - s.mouse.lastY) * s.mouse.sensitivity,
            !.mouse.lastX = e[1],
            !.mouse.lastY = e[2]]

OnMouseMove(s, e) ==
    IF ~s.mouse.isDown THEN s
    ELSE LET deltaX == e[1] - s.mouse.lastX
             deltaY == e[2] - s.mouse.lastY
         IN  [s EXCEPT
                !.cameraControls.targetAzimuth =
                    s.cameraControls.targetAzimuth - deltaX * s.mouse.sensitivity,
                !.cameraControls.targetElevation =
                    s.cameraControls.targetElevation + deltaY * s.mouse.sensitivity,
                !.mouse.lastX = e[1],
                !.mouse.lastY = e[2]]

\* A mouseup handler that returns the targets to where the camera is.
OnMouseUp_SnapsBack(s) ==
    [s EXCEPT !.mouse.isDown = FALSE,
              !.cameraControls.targetAzimuth = s.cameraControls.azimuth,
              !.cameraControls.targetElevation = s.cameraControls.elevation]

OnMouseUp(s) == [s EXCEPT !.mouse.isDown = FALSE]

OnMouseLeave(s) == [s EXCEPT !.mouse.isDown = FALSE]

\* A wheel handler without lines 128-131: the scaled distance is stored as is.
ClampDistance_Unclamped(cc, d) == d

\* Lines 128-131.
ClampDistance(cc, d) == Max(cc.minDistance, Min(cc.maxDistance, d))

\* A wheel handler without line 133: zooming leaves auto-rotation on.
OnWheel_KeepsAutoRotate(s, deltaY) ==
    [s EXCEPT !.cameraControls.targetDistance =
                ClampDistance(s.cameraControls,
                    FMul(s.cameraControls.targetDistance,
                         Scale + (IF deltaY > 0 THEN 1 ELSE -1) * Lit(1, 10)))]

OnWheel(s, deltaY) ==
    LET zoomSpeed == Lit(1, 10)
        delta == IF deltaY > 0 THEN 1 ELSE -1
        cc == s.cameraControls
    IN  [s EXCEPT
            !.cameraControls.targetDistance =
                ClampDistance(cc, FMul(cc.targetDistance, Scale + delta * zoomSpeed)),
            !.cameraControls.autoRotate = FALSE]

\* A double-click handler that restores auto-rotation but keeps the targets.
OnDblClick_KeepsTargets(s) == [s EXCEPT !.cameraControls.autoRotate = TRUE]

OnDblClick(s) ==
    [s EXCEPT !.cameraControls.targetDistance = 12 * Scale,
              !.cameraControls.targetAzimuth = 0,
              !.cameraControls.targetElevation = Lit(3, 10),
              !.cameraControls.autoRotate = TRUE]

\* rect.width * dpr as the canvas width / height setter stores it (lines
\* 507-508): the product of two doubles, its fraction dropped (unsigned
\* long).  The double of dprPercent / 100 has a 53-bit mantissa: with the
\* ratio in [2^a, 2^(a+1)) and b = a + 3, r is what dprPercent * 2^(52-a)
\* leaves over 100, and the mantissa is rounded down (to even on a tie) when
\* r <= 50.  A product that is not a whole number is far from one, so its
\* fraction is dropped as in exact arithmetic.  A whole product n computed
\* from a ratio that was rounded down falls short of n by w * r / (100 *
\* 2^(52-a)); it is rounded back to n when that is at most half the spacing
\* of the doubles below n, and is n - 1 after truncation otherwise.
ToPixels(w, dprPercent) ==
    LET q == w * dprPercent
        n == q \div 100
        b == CHOOSE i \in 0..7 :
                100 * 2^i <= 8 * dprPercent /\ 8 * dprPercent < 200 * 2^i
        PowMod[k \in 0..55] == IF k = 0 THEN 1 ELSE (2 * PowMod[k - 1]) % 200
        r2 == (dprPercent * PowMod[55 - b]) % 200
        r == r2 % 100
        e == CHOOSE i \in 0..20 : 2^i <= n /\ n < 2^(i + 1)
        half == IF n = 2^e THEN 2^e ELSE 2^(e + 1)
    IN  IF q = 0 \/ q % 100 # 0 \/ r = 0 \/ r > 50 \/ (r = 50 /\ r2 >= 100)
        THEN n
        ELSE IF w * r * 2^(b + 2) <= 800 * half THEN n ELSE n - 1

\* resize() lines 504-508: the canvas after the two assignments.
ResizedCanvas(cv, lay) ==
    LET dpr == OrElse(lay.dpr, 100)
    IN  [cv EXCEPT !.width = ToPixels(lay.w, dpr), !.height = ToPixels(lay.h, dpr)]

\* resize() without line 510: the viewport keeps its rectangle.
ResizedViewport_Stale(g, cv) == g

\* resize() line 510.
ResizedViewport(g, cv) == [g EXCEPT !.viewport = <<0, 0, cv.width, cv.height>>]

(***************************************************************************)
(* The host page (src/script.js).                                          *)
(***************************************************************************)
\* Line 50: confirmed planets with valid data.
IsValidRow(planet) ==
    /\ planet.label = "1"
    /\ planet.period_days > 0
    /\ planet.radius_rearth > 0
    /\ planet.teff_k > 0

\* Lines 21-53: the rows kept, in file order.
FilterRows(rows) ==
    LET F[i \in 0..Len(rows)] ==
            IF i = 0 THEN << >>
            ELSE IF IsValidRow(rows[i]) THEN Append(F[i - 1], rows[i])
            ELSE F[i - 1]
    IN  F[Len(rows)]

\* Whether `new PlanetSystem3D(canvas)` throws: the constructor has no throw
\* statement, and returns normally at line 9 when there is no context.
ConstructorThrows(hasContext) == FALSE

\* script.js lines 1-10 as the script leaves them, with the page's interval
\* timers: handle 0 stands for undefined, countdownText for the text of the
\* countdown element (Null until the script writes it), timers for the
\* browser's active intervals [id, fn, period, due].
StartPage ==
    [phase |-> "start", planetSystem3D |-> FALSE, cameraMode |-> "",
     exoplanetsData |-> << >>, currentPlanetIndex |-> 0, errors |-> {},
     timeRemaining |-> 30, countdownInterval |-> 0, autoChangeInterval |-> 0,
     countdownText |-> Null, timers |-> {}, nextTimer |-> 1]

\* clearInterval(h).
clearInterval(pg, h) ==
    [pg EXCEPT !.timers = {tm \in pg.timers : tm.id # h}]

\* setInterval(fn, period) at time tnow; the handle returned is pg.nextTimer.
setInterval(pg, fn, period, tnow) ==
    [pg EXCEPT !.timers = pg.timers \cup
                   {[id |-> pg.nextTimer, fn |-> fn, period |-> period,
                     due |-> tnow + period]},
               !.nextTimer = pg.nextTimer + 1]

\* updateCountdown (lines 118-132): the element shows `${timeRemaining}s`.
updateCountdown(pg) == [pg EXCEPT !.countdownText = Some(pg.timeRemaining)]

\* startAutoChange() (lines 88-115) at time tnow: both intervals cleared
\* (lines 90-95), the countdown reset and shown (98-99), the countdown
\* interval started (102-109) and then the change interval (112-114).
startAutoChange(pg, tnow) ==
    [setInterval(
       setInterval(
         updateCountdown(
           [clearInterval(clearInterval(pg, pg.autoChangeInterval),
                          pg.countdownInterval)
               EXCEPT !.timeRemaining = 30]),
         "countdown", 1000, tnow),
       "autoChange", 30000, tnow)
        EXCEPT !.countdownInterval = pg.nextTimer,
               !.autoChangeInterval = pg.nextTimer + 1]

\* The countdown callback (lines 102-108): the element is updated before the
\* variable is reset.
CountdownTick(pg) ==
    [updateCountdown([pg EXCEPT !.timeRemaining = pg.timeRemaining - 1])
        EXCEPT !.timeRemaining = IF pg.timeRemaining - 1 <= 0 THEN 30
                                 ELSE pg.timeRemaining - 1]

\* loadExoplanet(index) lines 205-216 on [page, sys].
loadExoplanet(pg, s, index) ==
    IF index < 0 \/ index >= Len(pg.exoplanetsData)
    THEN [page |-> pg, sys |-> s]
    ELSE [page |-> [pg EXCEPT !.currentPlanetIndex = index],
          sys  |-> IF pg.planetSystem3D
                   THEN setPlanet(s, pg.exoplanetsData[index + 1])
                   ELSE s]

\* loadRandomExoplanet() (lines 192-201) with randomIndex the index that
\* Math.random() selects; the countdown is reset when its interval exists (lines 197-200).
loadRandomExoplanet(pg, s, randomIndex) ==
    LET r == loadExoplanet(pg, s, randomIndex)
    IN  [page |-> IF r.page.countdownInterval # 0
                  THEN updateCountdown([r.page EXCEPT !.timeRemaining = 30])
                  ELSE r.page,
         sys  |-> r.sys]

(***************************************************************************)
(* Initial state: the scripts are loaded, DOMContentLoaded has not fired.  *)
(***************************************************************************)
Init ==
    /\ now = 0
    /\ page = StartPage
    /\ layout = [w |-> 300, h |-> 150, dpr |-> 100]
    /\ canvas = DefaultCanvas
    /\ sys = DeadSystem
    /\ gl = GLContext(DefaultCanvas)
    /\ raf = 0
    /\ trace = << >>
    /\ lastOp = "load"
    /\ events = 0
    /\ frames = 0
    /\ probe = Null

(***************************************************************************)
(* Actions.                                                                *)
(***************************************************************************)
\* The machine m becomes the state.
Commit(m) == sys' = m.sys /\ gl' = m.gl /\ raf' = m.raf /\ trace' = m.trace

\* script.js lines 135-155 with the PlanetSystem3D constructor (lines 3-67):
\* hasContext is whether canvas.getContext gives a context, t0 the time.
DOMContentLoaded(hasContext, t0) ==
    /\ page.phase = "start"
    /\ now' = t0
    /\ IF ConstructorThrows(hasContext)
       THEN /\ page' = [page EXCEPT !.phase = "loading", !.cameraMode = "2D Fallback"]
            /\ UNCHANGED <<sys, gl, raf, trace, canvas>>
       ELSE /\ page' = [page EXCEPT !.phase = "loading", !.planetSystem3D = TRUE,
                                    !.cameraMode = "3D Orbitale"]
            /\ IF hasContext
               THEN /\ Commit(init([sys |-> NewSystem, gl |-> GLContext(canvas),
                                     trace |-> << >>, raf |-> 0], canvas, t0))
                    /\ canvas' = [canvas EXCEPT !.cursor = "grab"]
               ELSE /\ sys' = DeadSystem
                    /\ UNCHANGED <<gl, raf, trace, canvas>>
    /\ lastOp' = "DOMContentLoaded"
    /\ UNCHANGED layout

\* The browser runs the pending animation-frame callback, dt ms after the
\* previous frame.
AnimationFrame(dt) ==
    /\ raf > 0
    /\ now' = now + dt
    /\ Commit(animate([sys |-> sys, gl |-> gl, trace |-> trace, raf |-> raf - 1],
                       canvas, now + dt))
    /\ lastOp' = "frame"
    /\ UNCHANGED <<page, layout, canvas>>

\* The canvas listeners exist once setupControls has run.
Listening == page.phase # "start" /\ sys.gl

Input(name, s, cursor) ==
    /\ sys' = s
    /\ canvas' = [canvas EXCEPT !.cursor = cursor]
    /\ lastOp' = name
    /\ UNCHANGED <<now, page, layout, gl, raf, trace>>

MouseDown(e) ==
    /\ Listening
    /\ Input("mousedown", OnMouseDown2(OnMouseDown1(sys, e), e), "grabbing")

MouseMove(e) ==
    /\ Listening
    /\ Input("mousemove", OnMouseMove(sys, e), canvas.cursor)

MouseUp ==
    /\ Listening
    /\ Input("mouseup", OnMouseUp(sys), "grab")

MouseLeave ==
    /\ Listening
    /\ Input("mouseleave", OnMouseLeave(sys), "grab")

Wheel(deltaY) ==
    /\ Listening
    /\ Input("wheel", OnWheel(sys, deltaY), canvas.cursor)

DblClick ==
    /\ Listening
    /\ Input("dblclick", OnDblClick(sys), canvas.cursor)

\* The window's resize listener (script.js lines 149-155) after the layout
\* changed to lay.  resize() on an instance without a context assigns the
\* canvas size and then fails on this.gl.viewport; resizeCanvas() fails on the
\* undeclared ctx after the same assignments.
WindowResize(lay) ==
    /\ page.phase # "start"
    /\ layout' = lay
    /\ canvas' = ResizedCanvas(canvas, lay)
    /\ IF page.planetSystem3D /\ sys.gl
       THEN gl' = ResizedViewport(gl, ResizedCanvas(canvas, lay)) /\ page' = page
       ELSE /\ gl' = gl
            /\ page' = [page EXCEPT !.errors = @ \cup
                          {IF page.planetSystem3D THEN "TypeError" ELSE "ReferenceError"}]
    /\ lastOp' = "resize"
    /\ UNCHANGED <<now, sys, raf, trace>>

\* loadCSVData() resolves (script.js lines 13-85), then lines 161-163 load the
\* first planet.  fetched is whether the fetch and the read succeeded.
CsvDone(fetched) ==
    /\ page.phase = "loading"
    /\ LET data == IF fetched THEN FilterRows(CsvRows) ELSE FallbackData
           pg == IF fetched THEN startAutoChange(page, now) ELSE page
           r == loadExoplanet([pg EXCEPT !.exoplanetsData = data, !.phase = "ready"],
                              sys,
                              IF Len(data) > 0 THEN page.currentPlanetIndex ELSE -1)
       IN  page' = r.page /\ sys' = r.sys
    /\ lastOp' = "loadCSVData"
    /\ UNCHANGED <<now, layout, canvas, gl, raf, trace>>

\* A click on the explore button: loadRandomExoplanet (lines 192-201) with
\* randomIndex the index Math.random() selects.
ExploreClick(randomIndex) ==
    /\ page.phase = "ready"
    /\ randomIndex \in 0..Max(Len(page.exoplanetsData) - 1, 0)
    /\ LET r == loadRandomExoplanet(page, sys, randomIndex)
       IN  page' = r.page /\ sys' = r.sys
    /\ lastOp' = "explore"
    /\ UNCHANGED <<now, layout, canvas, gl, raf, trace>>

\* An interval that can fire next: none is due earlier.  The runtime re-arms
\* an interval after its callback ran, so intervals due together run in
\* either order.
NextTimer(tm) ==
    /\ tm \in page.timers
    /\ \A other \in page.timers : tm.due <= other.due

\* The runtime runs the callback of the interval tm, not before it is due:
\* late milliseconds after the instant it could first run, when the event
\* loop was busy.  The interval is due again one period after the callback
\* ran; randomIndex is what Math.random() selects when the callback is the
\* planet change.
TimerFires(tm, randomIndex, late) ==
    /\ NextTimer(tm)
    /\ tm.fn = "autoChange" => randomIndex \in 0..Max(Len(page.exoplanetsData) - 1, 0)
    /\ now' = Max(now, tm.due) + late
    /\ LET after == [page EXCEPT !.timers =
                        (page.timers \ {tm}) \cup
                        {[tm EXCEPT !.due = Max(now, tm.due) + late + tm.period]}]
           r == IF tm.fn = "countdown"
                THEN [page |-> CountdownTick(after), sys |-> sys]
                ELSE loadRandomExoplanet(after, sys, randomIndex)
       IN  page' = r.page /\ sys' = r.sys
    /\ lastOp' = tm.fn
    /\ UNCHANGED <<layout, canvas, gl, raf, trace>>

\* The window's beforeunload listener (script.js lines 283-290): both
\* intervals are cleared, their handles stay in the variables.
BeforeUnload ==
    /\ page' = clearInterval(clearInterval(page, page.autoChangeInterval),
                             page.countdownInterval)
    /\ lastOp' = "beforeunload"
    /\ UNCHANGED <<now, sys, layout, canvas, gl, raf, trace>>

(***************************************************************************)
(* Specifications.  The program's steps are the actions above; events and  *)
(* frames count them so that each specification explores a finite part of  *)
(* the behaviours.                                                         *)
(***************************************************************************)
\* A page-lifecycle step (counted neither as input nor as frame).
Lifecycle(A) == A /\ UNCHANGED <<events, frames, probe>>

\* An input event, while fewer than max were delivered.
InputEvent(A, max) ==
    events < max /\ A /\ events' = events + 1 /\ UNCHANGED <<frames, probe>>

\* An animation frame, while fewer than max have run.
FrameStep(A, max) ==
    frames < max /\ A /\ frames' = frames + 1 /\ UNCHANGED <<events, probe>>

Next ==
    \/ \E c \in BOOLEAN, t0 \in StartTimes : Lifecycle(DOMContentLoaded(c, t0))
    \/ \E f \in BOOLEAN : Lifecycle(CsvDone(f))
    \/ \E dt \in FrameDeltas : FrameStep(AnimationFrame(dt), MaxFrames)
    \/ \E e \in Pointers : InputEvent(MouseDown(e), MaxEvents)
    \/ \E e \in Pointers : InputEvent(MouseMove(e), MaxEvents)
    \/ InputEvent(MouseUp, MaxEvents)
    \/ InputEvent(MouseLeave, MaxEvents)
    \/ \E d \in WheelDeltas : InputEvent(Wheel(d), MaxEvents)
    \/ InputEvent(DblClick, MaxEvents)
    \/ \E lay \in Layouts : InputEvent(WindowResize(lay), MaxEvents)
    \/ \E i \in 0..1 : InputEvent(ExploreClick(i), MaxEvents)

Spec == Init /\ [][Next]_vars

\* The frame loop under the browser's scheduling: a requested animation frame
\* is eventually run.  FrameRuns is what a frame step does to the frame
\* count; the steps of Next that change the count are the AnimationFrame
\* steps, enabled exactly when a callback is pending below the bound.
FrameRuns == raf > 0 /\ frames < MaxFrames /\ frames' = frames + 1

SpecLive == Spec /\ WF_frames(FrameRuns)

\* Zooming: long runs of wheel events around a frame, after a few other inputs.
NextZoom ==
    \/ \E t0 \in StartTimes : Lifecycle(DOMContentLoaded(TRUE, t0))
    \/ \E d \in WheelDeltas : InputEvent(Wheel(d), MaxZoomEvents)
    \/ InputEvent(DblClick, MaxEvents)
    \/ \E e \in Pointers : InputEvent(MouseDown(e), MaxEvents)
    \/ \E e \in Pointers : InputEvent(MouseMove(e), MaxEvents)
    \/ InputEvent(MouseUp, MaxEvents)
    \/ InputEvent(MouseLeave, MaxEvents)
    \/ FrameStep(AnimationFrame(16), MaxZoomFrames)

SpecZoom == Init /\ [][NextZoom]_vars

\* Damping: a few inputs during the first frames, then a long run of frames
\* with the targets left alone.
MaxDampFrames == MaxFrames + SettleFrames + 2

DampInput(A) == frames <= MaxFrames /\ InputEvent(A, MaxDampEvents)

NextDamp ==
    \/ \E t0 \in StartTimes : Lifecycle(DOMContentLoaded(TRUE, t0))
    \/ \E e \in Pointers : DampInput(MouseDown(e))
    \/ \E e \in Pointers : DampInput(MouseMove(e))
    \/ DampInput(MouseUp)
    \/ \E d \in WheelDeltas : DampInput(Wheel(d))
    \/ DampInput(DblClick)
    \/ FrameStep(AnimationFrame(16), MaxDampFrames)

SpecDamp == Init /\ [][NextDamp]_vars

\* Zooming to the ends of the range: wheel and double-click events after
\* the first frame, a run of frames that lets the damped distance follow the
\* target, one more event after frame ReachTurn, and frames again.
ReachTurn == 40

ReachInput(A) ==
    \/ frames = 0 /\ InputEvent(A, MaxZoomEvents)
    \/ frames = ReachTurn /\ lastOp = "frame" /\ InputEvent(A, MaxZoomEvents + 1)

NextReach ==
    \/ \E t0 \in StartTimes : Lifecycle(DOMContentLoaded(TRUE, t0))
    \/ \E d \in WheelDeltas : ReachInput(Wheel(d))
    \/ ReachInput(DblClick)
    \/ FrameStep(AnimationFrame(16), MaxZoomFrames + SettleFrames)

SpecReach == Init /\ [][NextReach]_vars

\* The countdown and the automatic change: the page loads its list, the two
\* intervals fire when due for MaxTimerSeconds seconds, the explore button
\* is clicked up to MaxClicks times in between, a busy event loop delays a
\* callback now and then, and the window may announce its unloading.
MaxTimerSeconds == 65

MaxClicks == 2

\* A callback runs late at most MaxLate times, while no more than that many
\* events have happened.
MaxLate == 2

\* How late a callback runs behind a busy event loop, in milliseconds.
Delays == {0, 2500}

\* The interval running fn fires, within MaxTimerSeconds of the start; a
\* late run counts as an event.
TimerStep(fn, randomIndex, late) ==
    \E tm \in page.timers :
        /\ tm.fn = fn
        /\ tm.due <= (CHOOSE t0 \in StartTimes : TRUE) + 1000 * MaxTimerSeconds
        /\ IF late = 0
           THEN Lifecycle(TimerFires(tm, randomIndex, 0))
           ELSE InputEvent(TimerFires(tm, randomIndex, late), MaxLate)

\* The random index plays no part in a countdown tick.
NextTimers ==
    \/ \E t0 \in StartTimes : Lifecycle(DOMContentLoaded(TRUE, t0))
    \/ \E f \in BOOLEAN : Lifecycle(CsvDone(f))
    \/ \E late \in Delays : TimerStep("countdown", 0, late)
    \/ \E i \in 0..1, late \in Delays : TimerStep("autoChange", i, late)
    \/ \E i \in 0..1 : InputEvent(ExploreClick(i), MaxClicks)
    \/ Lifecycle(BeforeUnload)

SpecTimers == Init /\ [][NextTimers]_vars

(***************************************************************************)
(* Two runs of the engine side by side, neither receiving any input: the   *)
(* first is the page's engine, the second one lives in probe.  Both start  *)
(* at the same instant and then render frames 1, 2 or 3 display intervals  *)
(* of 16 ms apart, each at its own pace.                                   *)
(***************************************************************************)
ReplayTicks == 6
ReplayDeltas == {16, 32, 48}
ReplayEnd == (CHOOSE t0 \in StartTimes : TRUE) + 16 * ReplayTicks

ReplayStart(t0) ==
    /\ DOMContentLoaded(TRUE, t0)
    /\ probe' = [sys |-> sys', gl |-> gl', trace |-> trace', raf |-> raf']
    /\ UNCHANGED <<events, frames>>

\* A frame of the first run.
ReplayFrame(dt) ==
    /\ now + dt <= ReplayEnd
    /\ Lifecycle(AnimationFrame(dt))

\* A frame of the second run: animate (lines 483-501) on the engine in probe.
ReplayFrameSecond(dt) ==
    /\ probe # Null
    /\ probe.raf > 0
    /\ probe.sys.lastFrameTime + dt <= ReplayEnd
    /\ probe' = animate([probe EXCEPT !.raf = @ - 1], canvas,
                        probe.sys.lastFrameTime + dt)
    /\ UNCHANGED <<now, page, layout, canvas, sys, gl, raf, trace, lastOp,
                   events, frames>>

NextReplay ==
    \/ \E t0 \in StartTimes : ReplayStart(t0)
    \/ \E dt \in ReplayDeltas : ReplayFrame(dt)
    \/ \E dt \in ReplayDeltas : ReplayFrameSecond(dt)

SpecReplay == Init /\ [][NextReplay]_vars

(***************************************************************************)
(* Functions of the program called on their own: probe holds the call, and *)
(* the step of the function fills in what it returns.                      *)
(***************************************************************************)
Call(fn, arg) == [fn |-> fn, arg |-> arg, out |-> Null]

\* The call fn(probe.arg) returns out.
Return(fn, out) ==
    /\ probe.fn = fn
    /\ probe.out = Null
    /\ probe' = [probe EXCEPT !.out = Some(out)]
    /\ UNCHANGED <<now, page, layout, canvas, sys, gl, raf, trace, lastOp,
                   events, frames>>

Returned(fn) == probe # Null /\ probe.fn = fn /\ probe.out # Null

\* Scale factors along one axis for the model matrix handed to
\* normalFromMat4: a factor 0 makes the upper-left 3x3 block singular.
AxisScales == {0, Lit(5, 10), Lit(12, 10)}

ScaledModel(sx, sy, sz) == mat4_scale(mat4_identity, <<sx, sy, sz>>)

\* What this.normalMatrix holds from the object drawn before.
StaleNormal == <<4 * Scale, 0, 0,  0, 4 * Scale, 0,  0, 0, 4 * Scale>>

\* The engine after init() with a record set and the normal matrix of an
\* earlier draw, about to run drawStar or drawPlanet.
BeforeDraw ==
    LET m == init([sys |-> NewSystem, gl |-> GLContext(DefaultCanvas),
                   trace |-> << >>, raf |-> 0], DefaultCanvas, 0)
    IN  [m EXCEPT !.sys.currentPlanet = Some(FallbackData[1]),
                  !.sys.normalMatrix = StaleNormal,
                  !.gl.uniforms.normalMatrix = StaleNormal,
                  !.trace = << >>]

\* normalFromMat4(out, a) with out = StaleNormal: what it returns and what
\* out holds afterwards.
NormalCall(a) ==
    [returns |-> mat3_normalFromMat4_returns(StaleNormal, a),
     out     |-> mat3_normalFromMat4(StaleNormal, a)]

\* Star radii (solar) and planet radii (Earth) of a record, 0 standing for
\* a zero or absent field (both take the default of  ||), and the clock at
\* the draw.
Radii == {0, 1, 500, Scale, 1667, 2667, 4 * Scale, 8 * Scale, 12 * Scale, 100 * Scale}

DrawTimes == {0, 120, 5 * Scale, 60 * Scale}

\* A record with the given radius for both star and planet.
SizedPlanet(r) ==
    Planet("1", "K00001.01", 37426, 163, r, 300 * Scale, 5000 * Scale, r)

PureCalls ==
    {Call("getStarColor", <<t>>) : t \in ColourTemps}
    \cup {Call("getPlanetColor", <<t>>) : t \in ColourTemps}
    \cup {Call("createSphere", <<sg, rg>>) : sg \in 1..MaxSegments, rg \in 1..MaxRings}
    \cup {Call("planetPosition", <<pd, ar>>) : pd \in OrbitPeriods, ar \in OrbitRatios}
    \cup {Call("wheel", <<td, dy>>) : td \in WheelDistances, dy \in WheelDeltas}
    \cup {Call("normalFromMat4", <<sx, sy, sz>>) :
            sx \in AxisScales, sy \in AxisScales, sz \in AxisScales}
    \cup {Call(fn, <<r, t>>) :
            fn \in {"drawStar", "drawPlanet"}, r \in Radii, t \in DrawTimes}

InitPure ==
    /\ now = 0
    /\ page = StartPage
    /\ layout = [w |-> 300, h |-> 150, dpr |-> 100]
    /\ canvas = DefaultCanvas
    /\ sys = DeadSystem
    /\ gl = GLContext(DefaultCanvas)
    /\ raf = 0
    /\ trace = << >>
    /\ lastOp = "load"
    /\ events = 0
    /\ frames = 0
    /\ probe \in PureCalls

\* A record with the given period and orbit ratio.
OrbitingPlanet(period, ratio) ==
    Planet("1", "K00001.01", period, ratio, Scale, 300 * Scale, 5000 * Scale, Scale)

\* The instance with the given target distance.
ZoomedTo(td) == [NewSystem EXCEPT !.cameraControls.targetDistance = td]

NextPure ==
    \/ Return("getStarColor", getStarColor(probe.arg[1]))
    \/ Return("getPlanetColor", getPlanetColor(probe.arg[1]))
    \/ Return("createSphere", createSphere(Scale, probe.arg[1], probe.arg[2]))
    \/ Return("planetPosition",
              PlanetPosition(OrbitingPlanet(probe.arg[1], probe.arg[2]), 0,
                             NewSystem.orbitSpeed))
    \/ Return("wheel",
              OnWheel(ZoomedTo(probe.arg[1]), probe.arg[2]).cameraControls.targetDistance)
    \/ Return("normalFromMat4",
              NormalCall(ScaledModel(probe.arg[1], probe.arg[2], probe.arg[3])))
    \/ Return("drawStar",
              drawStar([BeforeDraw EXCEPT !.sys.time = probe.arg[2]],
                       SizedPlanet(probe.arg[1])).gl)
    \/ Return("drawPlanet",
              drawPlanet([BeforeDraw EXCEPT !.sys.time = probe.arg[2]],
                         SizedPlanet(probe.arg[1])).gl)

SpecPure == InitPure /\ [][NextPure]_vars

(***************************************************************************)
(* Properties.                                                             *)
(***************************************************************************)
\* The engine was constructed with a context: its fields and listeners exist.
Running == page.phase # "start" /\ sys.gl

InputOps == {"mousedown", "mousemove", "mouseup", "mouseleave", "wheel", "dblclick"}

\* C1: the target camera distance is always within [minDistance, maxDistance]
\* (3 and 40 by default), whatever wheel, mouse and double-click events and
\* frames have happened; a wheel event that would leave the range stores the
\* bound.  A property of SpecZoom.
C1_TargetDistanceInRange ==
    Running =>
        /\ sys.cameraControls.minDistance = 3 * Scale
        /\ sys.cameraControls.maxDistance = 40 * Scale
        /\ sys.cameraControls.targetDistance >= sys.cameraControls.minDistance
        /\ sys.cameraControls.targetDistance <= sys.cameraControls.maxDistance

\* A wheel event has just pushed the target against the upper bound: one more
\* zoom-out step from the previous target would exceed 40.
C1_Witness ==
    /\ Running
    /\ lastOp = "wheel"
    /\ sys.cameraControls.targetDistance = sys.cameraControls.maxDistance
    /\ events >= 13

\* C2: after a double-click auto-rotation is on and the targets are distance
\* 12, azimuth 0, elevation 0.3, whatever the state before.
C2_DblClickResets ==
    (Running /\ lastOp = "dblclick") =>
        /\ sys.cameraControls.autoRotate
        /\ sys.cameraControls.targetDistance = 12 * Scale
        /\ sys.cameraControls.targetAzimuth = 0
        /\ sys.cameraControls.targetElevation = Lit(3, 10)

\* A double-click while the button is still down from the mousedown that
\* turned auto-rotation off (after a wheel the reset leaves no mark on the
\* targets, so the witness uses the drag).
C2_Witness ==
    /\ Running
    /\ lastOp = "dblclick"
    /\ sys.mouse.isDown
    /\ sys.cameraControls.autoRotate

\* C3: a mousedown or a wheel event leaves auto-rotation off, and auto-rotation
\* goes from off to on only in a double-click step: it stays off through every
\* frame and every other event.
C3_ManualOverrideSticky ==
    [][ /\ (Running' /\ lastOp' \in {"mousedown", "wheel"})
            => ~sys'.cameraControls.autoRotate
        /\ (Running /\ ~sys.cameraControls.autoRotate /\ sys'.cameraControls.autoRotate)
            => lastOp' = "dblclick" ]_vars

\* Auto-rotation is still off after a frame that followed the override.
C3_Witness ==
    /\ Running
    /\ lastOp = "frame"
    /\ events >= 1
    /\ ~sys.cameraControls.autoRotate

\* |target - current| of azimuth, elevation and distance.
DampGap(cc) ==
    << Abs(cc.targetAzimuth - cc.azimuth),
       Abs(cc.targetElevation - cc.elevation),
       Abs(cc.targetDistance - cc.distance) >>

\* A frame step with auto-rotation off: nothing moves the targets.
ManualFrame == Running /\ ~sys.cameraControls.autoRotate /\ lastOp' = "frame"

\* C4 (as the code behaves): with the targets fixed, a frame never takes a
\* damped value further from its target and takes it strictly closer whenever
\* the gap exceeds the rounding granularity DampEps; SettleFrames frames after
\* the last input every gap is within DampEps and stays there.  A property
\* of SpecDamp.
C4_DampingContracts ==
    /\ [][ ManualFrame =>
             \A i \in 1..3 :
                /\ DampGap(sys'.cameraControls)[i] <= DampGap(sys.cameraControls)[i]
                /\ DampGap(sys.cameraControls)[i] > DampEps
                     => DampGap(sys'.cameraControls)[i] < DampGap(sys.cameraControls)[i]
          ]_vars
    /\ [](  (Running /\ ~sys.cameraControls.autoRotate
                     /\ frames >= MaxFrames + SettleFrames)
            => \A i \in 1..3 : DampGap(sys.cameraControls)[i] <= DampEps )

\* The damped distance has settled after a zoom and rests at a non-zero gap
\* that further frames no longer reduce.
C4_Witness ==
    /\ Running
    /\ ~sys.cameraControls.autoRotate
    /\ frames >= MaxFrames + SettleFrames
    /\ DampGap(sys.cameraControls)[3] > 0
    /\ DampGap(sys.cameraControls)[3] <= DampEps

\* C4 as stated: with the targets fixed, every frame takes each damped value
\* strictly closer to its target whenever the gap is not zero.
C4_StrictlyCloserWheneverNonZero ==
    [][ ManualFrame =>
          \A i \in 1..3 :
             DampGap(sys.cameraControls)[i] # 0
                => DampGap(sys'.cameraControls)[i] < DampGap(sys.cameraControls)[i]
      ]_vars

\* The drawStar / drawPlanet calls among the steps of a frame.
DrawSteps(tr) == SelectSeq(tr, LAMBDA st : st.step \in {"drawStar", "drawPlanet"})

FrameOps == {"frame", "DOMContentLoaded"}

\* C5: a frame draws exactly the record that the most recent setPlanet call
\* stored before the frame began (star and planet coloured from that record),
\* a frame with no record stored draws nothing, and setPlanet itself (the
\* host's loadExoplanet, at any point between frames) stores the record it
\* is given and draws nothing.
C5_FrameDrawsCurrentRecord ==
    [][ /\ (Running' /\ lastOp' \in FrameOps /\ sys.currentPlanet = Null)
            => /\ DrawSteps(trace') = << >>
               /\ gl'.framebuffer = << >>
        /\ (Running' /\ lastOp' \in FrameOps /\ sys.currentPlanet # Null)
            => /\ DrawSteps(trace') = << StepArg("drawStar", sys.currentPlanet[1]),
                                         StepArg("drawPlanet", sys.currentPlanet[1]) >>
               /\ Len(gl'.framebuffer) = 3
               /\ gl'.framebuffer[1].uniforms.color
                     = getStarColor(sys.currentPlanet[1].teff_k)
               /\ gl'.framebuffer[2].uniforms.color
                     = getPlanetColor(sys.currentPlanet[1].eq_temp_k)
        /\ (Running' /\ lastOp' \in {"loadCSVData", "explore"}
                     /\ Len(page'.exoplanetsData) > 0)
            => /\ sys'.currentPlanet
                     = Some(page'.exoplanetsData[page'.currentPlanetIndex + 1])
               /\ trace' = trace
               /\ gl' = gl
      ]_vars

\* A frame has drawn the record that replaced the first one.
C5_Witness ==
    /\ Running
    /\ lastOp = "frame"
    /\ page.currentPlanetIndex = 1
    /\ sys.currentPlanet = Some(page.exoplanetsData[2])
    /\ Len(DrawSteps(trace)) = 2

\* C6 as stated: when the canvas gives no WebGL context the host ends up on
\* the 2D fallback with no engine handle, so no later resize fails on the
\* handle and no record is stored in it.
C6_NoContextFallsBack ==
    (page.phase # "start" /\ ~sys.gl) =>
        /\ ~page.planetSystem3D
        /\ page.cameraMode = "2D Fallback"
        /\ "TypeError" \notin page.errors
        /\ sys.currentPlanet = Null

\* The projection a frame leaves is the perspective of the canvas's current
\* width / height.
ProjectionOfCanvas ==
    sys.projectionMatrix =
        mat4_perspective(RoundDiv(sys.camera.fov * Pi, 180 * Scale),
                         FDiv(canvas.width * Scale, canvas.height * Scale),
                         sys.camera.near, sys.camera.far)

\* The statement of C7 with the canvas's pixel size exactly the
\* bounding-rectangle size times the device pixel ratio (1 when absent).
C7_ViewportAndProjection ==
    Running =>
        /\ gl.viewport = <<0, 0, canvas.width, canvas.height>>
        /\ lastOp = "resize"
             => /\ canvas.width * 100 = layout.w * OrElse(layout.dpr, 100)
                /\ canvas.height * 100 = layout.h * OrElse(layout.dpr, 100)
        /\ lastOp \in FrameOps => ProjectionOfCanvas

\* px is size times the ratio with its fraction dropped, or one less.
WholePixels(px, size, dprPercent) ==
    /\ px * 100 <= size * dprPercent
    /\ size * dprPercent - 100 <= px * 100

\* C7: the viewport rectangle is the canvas's pixel size, which after a
\* resize is a whole number of pixels, never above the bounding-rectangle
\* size times the device pixel ratio (1 when absent) and at most one pixel
\* below it, and the projection a frame leaves is the perspective of the
\* canvas's current width / height.
C7_ViewportIsWholePixels ==
    Running =>
        /\ gl.viewport = <<0, 0, canvas.width, canvas.height>>
        /\ lastOp = "resize"
             => /\ WholePixels(canvas.width, layout.w, OrElse(layout.dpr, 100))
                /\ WholePixels(canvas.height, layout.h, OrElse(layout.dpr, 100))
        /\ lastOp \in FrameOps => ProjectionOfCanvas

\* A frame after a resize at device pixel ratio 1.5 of a rectangle 321 by
\* 201: the viewport is 481 by 301, half a pixel short on each side, and the
\* projection is no longer the initial one.
C7_Witness ==
    /\ Running
    /\ lastOp = "frame"
    /\ layout = [w |-> 321, h |-> 201, dpr |-> 150]
    /\ gl.viewport = <<0, 0, 481, 301>>
    /\ sys.projectionMatrix[1] # sys.projectionMatrix[6] \div 2

StepNames(tr) == [i \in 1..Len(tr) |-> tr[i].step]

DrawCalls(fb) == [i \in 1..Len(fb) |-> fb[i].call]

\* C8: a frame runs clock, camera, projection, clear, then (only with a
\* record) star, planet, orbit, then the request for the next frame: the
\* auto-rotation target is computed from the advanced clock, every draw
\* lands after the clear and carries the frame's view and projection, and
\* without a record nothing is drawn.
C8_FrameOrder ==
    (Running /\ lastOp \in FrameOps) =>
        /\ StepNames(trace) =
              <<"time", "updateCamera", "updateProjection", "clear">>
              \o (IF sys.currentPlanet # Null
                  THEN <<"drawStar", "drawElements",
                         "drawPlanet", "drawElements", "drawOrbit", "drawArrays">>
                  ELSE << >>)
              \o <<"requestAnimationFrame">>
        /\ DrawCalls(gl.framebuffer) =
              (IF sys.currentPlanet # Null
               THEN <<"drawElements", "drawElements", "drawArrays">>
               ELSE << >>)
        /\ \A i \in 1..Len(gl.framebuffer) :
              /\ gl.framebuffer[i].uniforms.projectionMatrix = sys.projectionMatrix
              /\ gl.framebuffer[i].uniforms.viewMatrix = sys.viewMatrix
        /\ sys.cameraControls.autoRotate
             => sys.cameraControls.targetAzimuth
                  = FMul(sys.time, sys.cameraControls.autoRotateSpeed) * 2

\* A frame with a record has run all eleven steps.
C8_Witness ==
    /\ Running
    /\ lastOp = "frame"
    /\ sys.currentPlanet # Null
    /\ Len(trace) = 11
    /\ Len(gl.framebuffer) = 3

\* C9: once the engine runs, exactly one frame callback is pending at every
\* point between frames (each frame consumes one and requests one, none is
\* pending without an engine), and every frame is followed by another.
\* A property of SpecLive, up to the frame bound.
C9_OnePendingFrame ==
    /\ [](Running => raf = 1)
    /\ [](~Running => raf = 0)
    /\ [](Running =>
            Cardinality({i \in 1..Len(trace) :
                           trace[i].step = "requestAnimationFrame"}) = 1)
    /\ \A k \in 0..(MaxFrames - 1) : (Running /\ frames = k) ~> (frames = k + 1)

\* The loop has run to the frame bound and a callback is still pending.
C9_Witness ==
    /\ Running
    /\ frames = MaxFrames
    /\ raf = 1

\* C10: an input handler changes only the targets, the auto-rotate flag and
\* the pointer state: the damped values, the camera position, the matrices,
\* the clock, the planet record and the whole GL state (buffers included)
\* are as before, and no frame is run or requested.
C10_InputsTouchOnlyTargets ==
    [][ (Running /\ lastOp' \in InputOps) =>
          /\ sys' = [sys EXCEPT
                       !.cameraControls.targetAzimuth = sys'.cameraControls.targetAzimuth,
                       !.cameraControls.targetElevation = sys'.cameraControls.targetElevation,
                       !.cameraControls.targetDistance = sys'.cameraControls.targetDistance,
                       !.cameraControls.autoRotate = sys'.cameraControls.autoRotate,
                       !.mouse = sys'.mouse]
          /\ gl' = gl
          /\ trace' = trace
          /\ raf' = raf
      ]_vars

\* A drag has moved the azimuth target while the damped azimuth is where the
\* last frame left it.
C10_Witness ==
    /\ Running
    /\ lastOp = "mousemove"
    /\ frames >= 1
    /\ sys.mouse.isDown
    /\ sys.cameraControls.targetAzimuth # sys.cameraControls.azimuth
    /\ sys.mouse.lastX # 100

\* The step tables of the two colour functions: threshold in kelvin, colour.
StarTable ==
    << <<6000, <<Scale, Scale, Scale>> >>,
       <<5000, <<Scale, Scale, Lit(7, 10)>> >>,
       <<4000, <<Scale, Lit(6, 10), Lit(3, 10)>> >>,
       <<3000, <<Scale, Lit(3, 10), Lit(3, 10)>> >> >>

StarElse == <<Lit(8, 10), Lit(2, 10), Lit(2, 10)>>

PlanetTable ==
    << <<1000, <<Scale, Lit(4, 10), Lit(4, 10)>> >>,
       <<500,  <<Scale, Lit(6, 10), Lit(3, 10)>> >>,
       <<273,  <<Lit(4, 10), Lit(6, 10), Scale>> >>,
       <<200,  <<Lit(6, 10), Lit(6, 10), Scale>> >> >>

PlanetElse == <<Lit(7, 10), Lit(7, 10), Lit(7, 10)>>

\* The rows of a table that a temperature matches, the threshold itself
\* matching or not.
RowsAbove(table, t) == {i \in 1..Len(table) : t > table[i][1] * Scale}

RowsAtOrAbove(table, t) == {i \in 1..Len(table) : t >= table[i][1] * Scale}

\* The colour of the first of the matching rows, the else-row without one.
FirstRowColour(table, rows, else) ==
    IF rows = {} THEN else
    ELSE table[CHOOSE i \in rows : \A j \in rows : i <= j][2]

\* The five values the tables are illustrated with.
ColourExamples ==
    /\ (Returned("getStarColor") /\ probe.arg[1] = 6500 * Scale)
         => probe.out[1] = <<Scale, Scale, Scale>>
    /\ (Returned("getStarColor") /\ probe.arg[1] = 4500 * Scale)
         => probe.out[1] = <<Scale, Lit(6, 10), Lit(3, 10)>>
    /\ (Returned("getStarColor") /\ probe.arg[1] = 2500 * Scale)
         => probe.out[1] = <<Lit(8, 10), Lit(2, 10), Lit(2, 10)>>
    /\ (Returned("getPlanetColor") /\ probe.arg[1] = 1200 * Scale)
         => probe.out[1] = <<Scale, Lit(4, 10), Lit(4, 10)>>
    /\ (Returned("getPlanetColor") /\ probe.arg[1] = 250 * Scale)
         => probe.out[1] = <<Lit(6, 10), Lit(6, 10), Scale>>

\* C11 (as the code behaves): getStarColor and getPlanetColor return the
\* colour of the first row, in descending order, whose threshold the
\* temperature is strictly above (a temperature equal to a threshold falls
\* to the next row), the else-row when there is none; the five examples
\* hold.  A property of SpecPure.
C11_ColourFirstRowAbove ==
    /\ Returned("getStarColor")
         => probe.out[1] = FirstRowColour(StarTable, RowsAbove(StarTable, probe.arg[1]),
                                          StarElse)
    /\ Returned("getPlanetColor")
         => probe.out[1] = FirstRowColour(PlanetTable,
                                          RowsAbove(PlanetTable, probe.arg[1]), PlanetElse)
    /\ ColourExamples

\* A star of exactly 6000 K got the colour of the second row.
C11_Witness ==
    /\ Returned("getStarColor")
    /\ probe.arg[1] = 6000 * Scale
    /\ probe.out[1] = <<Scale, Scale, Lit(7, 10)>>

\* C11 as stated: the rows are matched with an inclusive lower threshold.
C11_ColourFirstRowInclusive ==
    /\ Returned("getStarColor")
         => probe.out[1] = FirstRowColour(StarTable,
                                          RowsAtOrAbove(StarTable, probe.arg[1]), StarElse)
    /\ Returned("getPlanetColor")
         => probe.out[1] = FirstRowColour(PlanetTable,
                                          RowsAtOrAbove(PlanetTable, probe.arg[1]),
                                          PlanetElse)
    /\ ColourExamples

\* The counts of a mesh of the given segments and rings: every array has
\* the length of its share of the vertices or triangles, and every index
\* names a vertex.
MeshCounts(mesh, segments, rings) ==
    /\ Len(mesh.positions) = 3 * (rings + 1) * (segments + 1)
    /\ Len(mesh.normals) = 3 * (rings + 1) * (segments + 1)
    /\ Len(mesh.uvs) = 2 * (rings + 1) * (segments + 1)
    /\ Len(mesh.indices) = 3 * (2 * rings * segments)
    /\ \A k \in 1..Len(mesh.indices) :
          mesh.indices[k] >= 0 /\ mesh.indices[k] < (rings + 1) * (segments + 1)

\* C12: createSphere(radius, segments, rings) with segments, rings >= 1
\* emits (rings+1)*(segments+1) vertices of 3 position, 3 normal and 2 UV
\* floats, 2*rings*segments triangles, and only indices of emitted vertices;
\* 15 vertices and 48 indices for segments 4, rings 2.  A property of
\* SpecPure.
C12_SphereCounts ==
    Returned("createSphere") =>
        /\ MeshCounts(probe.out[1], probe.arg[1], probe.arg[2])
        /\ probe.arg = <<4, 2>>
             => /\ Len(probe.out[1].positions) = 3 * 15
                /\ Len(probe.out[1].indices) = 48

\* The sphere of 4 segments and 2 rings, whose last index is its last vertex.
C12_Witness ==
    /\ Returned("createSphere")
    /\ probe.arg = <<4, 2>>
    /\ Len(probe.out[1].uvs) = 30
    /\ \E k \in 1..Len(probe.out[1].indices) : probe.out[1].indices[k] = 14

\* C13: at elapsed time 0 drawPlanet places the planet at (orbitRadius, 0, 0)
\* whatever the period, a zero or absent period included (it counts as 1).
\* A property of SpecPure.
C13_PlanetStartsOnXAxis ==
    Returned("planetPosition") =>
        /\ probe.out[1] =
              << OrbitRadius(OrbitingPlanet(probe.arg[1], probe.arg[2])), 0, 0 >>
        /\ probe.out[1][1] >= 3 * Scale
        /\ probe.out[1][1] <= 7 * Scale

\* The position of a record with period 0 and an orbit ratio inside the
\* clamp (5 * 0.2 would be 1, the radius is 3).
C13_Witness ==
    /\ Returned("planetPosition")
    /\ probe.arg = <<0, 5 * Scale>>
    /\ probe.out[1] = <<3 * Scale, 0, 0>>

\* A record has a positive period, radius and stellar temperature.
PositiveRecord(planet) ==
    /\ planet.period_days > 0
    /\ planet.radius_rearth > 0
    /\ planet.teff_k > 0

\* The records the host holds and the one it passed to setPlanet last.
PresentedRecords ==
    {page.exoplanetsData[i] : i \in 1..Len(page.exoplanetsData)}
    \cup {sys.currentPlanet[i] : i \in 1..Len(sys.currentPlanet)}

\* Every record the host holds or passes to setPlanet, after a CSV load or
\* from the fallback list, has a positive period, radius and stellar
\* temperature; it carries the confirmation flag "1" unless it is the record
\* of the fallback list, whose label is a name.
RecordsArePositive ==
    \A planet \in PresentedRecords :
        /\ PositiveRecord(planet)
        /\ planet.label = "1" \/ planet = FallbackData[1]

\* C14: every record passed to setPlanet, on either load path,
\* has a positive period, radius and stellar temperature and the
\* confirmation flag set.
C14_RecordsAreValidated ==
    \A planet \in PresentedRecords :
        PositiveRecord(planet) /\ planet.label = "1"

\* C15 as stated: a wheel event leaves targetDistance at the clamp to
\* [3, 40] of its product with 1 + sign(deltaY) * 0.1: 1.1 for deltaY > 0,
\* 0.9 for deltaY < 0, and 1 (no change) for deltaY = 0.
C15_WheelFactorIsSign ==
    Returned("wheel") =>
        probe.out[1] =
            Max(3 * Scale,
                Min(40 * Scale,
                    FMul(probe.arg[1], Scale + Sgn(probe.arg[2]) * Lit(1, 10))))

\* The three camera targets.
Targets(s) ==
    << s.cameraControls.targetAzimuth, s.cameraControls.targetElevation,
       s.cameraControls.targetDistance >>

\* C16: a drag is in progress from a mousedown to the next mouseup or
\* mouseleave; a mousemove during a drag lowers targetAzimuth by 0.005 per
\* pixel moved right and raises targetElevation by 0.005 per pixel moved
\* down since the previous pointer position, unclamped, and leaves the
\* distance; a mousemove outside a drag changes nothing; mousedown, mouseup
\* and mouseleave change no target.
C16_DragMovesTargets ==
    [][ Running =>
          /\ (lastOp' = "mousemove" /\ sys.mouse.isDown)
                => Targets(sys') =
                     << sys.cameraControls.targetAzimuth
                          - Lit(5, 1000) * (sys'.mouse.lastX - sys.mouse.lastX),
                        sys.cameraControls.targetElevation
                          + Lit(5, 1000) * (sys'.mouse.lastY - sys.mouse.lastY),
                        sys.cameraControls.targetDistance >>
          /\ (lastOp' = "mousemove" /\ ~sys.mouse.isDown) => sys' = sys
          /\ lastOp' = "mousedown"
                => sys'.mouse.isDown /\ Targets(sys') = Targets(sys)
          /\ lastOp' \in {"mouseup", "mouseleave"}
                => ~sys'.mouse.isDown /\ Targets(sys') = Targets(sys)
          /\ lastOp' \notin {"mousedown", "mouseup", "mouseleave"}
                => sys'.mouse.isDown = sys.mouse.isDown
      ]_vars

\* A drag from (100, 100) to (160, 80) has taken the azimuth target below
\* zero, where auto-rotation never puts it.
C16_Witness ==
    /\ Running
    /\ lastOp = "mousemove"
    /\ sys.mouse.isDown
    /\ sys.mouse.lastX = 160
    /\ sys.cameraControls.targetAzimuth < 0

\* C18: the clock never decreases; a frame advances it by the wall-clock
\* time since the previous frame and nothing else moves it; the first frame,
\* rendered by the constructor the instant the engine starts, advances it by
\* no more than the time since that start, which is none.
C18_ClockAdvancesByFrameDelta ==
    [][ /\ sys'.time >= sys.time
        /\ lastOp' = "frame" => sys'.time = sys.time + (now' - now)
        /\ (lastOp' = "DOMContentLoaded" /\ sys'.gl) => sys'.time = 0
        /\ lastOp' \notin {"frame", "DOMContentLoaded"} => sys'.time = sys.time
      ]_vars

\* The sphere's buffers as setupBuffers leaves them: handle and element count.
SphereBuffers ==
    << sys.vertexBuffer, sys.normalBuffer, sys.uvBuffer, sys.indexBuffer >>

\* The draws of the frame on screen made with the given call.
DrawsBy(call) ==
    {i \in 1..Len(gl.framebuffer) : gl.framebuffer[i].call = call}

\* C19: between steps of a running engine the live buffers are exactly the
\* four sphere buffers made at startup, unchanged in handle and size (65 x 33
\* vertices, 64 x 32 x 6 indices); the orbit buffer was alive, as a fifth
\* buffer, at the orbit draw that ends a frame, and only the four were alive
\* at every sphere draw.
C19_OnlySphereBuffersLive ==
    Running =>
        /\ SphereBuffers = <<1, 2, 3, 4>>
        /\ gl.buffers = << 65 * 33 * 3, 65 * 33 * 3, 65 * 33 * 2, 64 * 32 * 6 >>
        /\ \A i \in DrawsBy("drawArrays") : gl.framebuffer[i].live = 5
        /\ \A i \in DrawsBy("drawElements") : gl.framebuffer[i].live = 4

\* Two frames after the first have run, the record was replaced by the
\* second of the list, and the last frame drew an orbit.
C19_Witness ==
    /\ Running
    /\ lastOp = "frame"
    /\ frames >= 2
    /\ page.currentPlanetIndex = 1
    /\ DrawsBy("drawArrays") # {}
    /\ Len(gl.buffers) = 4

\* An attribute enabled as an array of size floats read from buffer h.
ArrayFrom(h, size) == [enabled |-> TRUE, buffer |-> h, size |-> size]

\* Every sphere draw on screen read position, normal and uv as arrays from
\* the sphere's three buffers; every orbit draw read position from the orbit
\* buffer, the fifth and live one, with normal and uv disabled.
DrawsMatchMesh ==
    Running =>
        /\ \A i \in DrawsBy("drawElements") :
              gl.framebuffer[i].attrib =
                  [position |-> ArrayFrom(sys.vertexBuffer, 3),
                   normal   |-> ArrayFrom(sys.normalBuffer, 3),
                   uv       |-> ArrayFrom(sys.uvBuffer, 2)]
        /\ \A i \in DrawsBy("drawArrays") :
              /\ gl.framebuffer[i].attrib.position
                    = ArrayFrom(gl.framebuffer[i].live, 3)
              /\ gl.framebuffer[i].live \notin {SphereBuffers[k] : k \in 1..4}
              /\ ~gl.framebuffer[i].attrib.normal.enabled
              /\ ~gl.framebuffer[i].attrib.uv.enabled

\* A frame's orbit draw left normal and uv disabled and the position
\* attribute enabled with no buffer, the orbit buffer being deleted.
AfterOrbitDraw ==
    /\ gl.attrib.position = [enabled |-> TRUE, buffer |-> 0, size |-> 3]
    /\ ~gl.attrib.normal.enabled
    /\ ~gl.attrib.uv.enabled

\* The orbit draw ends a frame, so the sphere draws that follow it are those
\* of the next frame: a frame that starts in the state an orbit draw left
\* behind still makes its sphere draws with all three attributes enabled
\* and read from the sphere's buffers.
DisabledStateNotInherited ==
    [][ (Running /\ AfterOrbitDraw /\ lastOp' = "frame")
          => /\ Len(gl'.framebuffer) = 3
             /\ \A i \in 1..2 :
                   /\ gl'.framebuffer[i].call = "drawElements"
                   /\ gl'.framebuffer[i].attrib =
                         [position |-> ArrayFrom(sys.vertexBuffer, 3),
                          normal   |-> ArrayFrom(sys.normalBuffer, 3),
                          uv       |-> ArrayFrom(sys.uvBuffer, 2)]
      ]_vars

\* C20: at every sphere draw (drawElements) position, normal and uv are
\* enabled and bound to the sphere's buffers, at every orbit draw
\* (drawArrays) position is enabled and bound to the live orbit buffer with
\* normal and uv disabled, and the disabled state an orbit draw leaves never
\* reaches a later sphere draw.
C20_AttributesMatchMesh == []DrawsMatchMesh /\ DisabledStateNotInherited

\* A frame that followed a frame with an orbit draw has drawn star and
\* planet as spheres and then the orbit.
C20_Witness ==
    /\ Running
    /\ lastOp = "frame"
    /\ frames >= 2
    /\ Len(gl.framebuffer) = 3
    /\ DrawsBy("drawElements") = {1, 2}
    /\ DrawsBy("drawArrays") = {3}
    /\ gl.framebuffer[2].attrib.uv.enabled
    /\ ~gl.framebuffer[3].attrib.uv.enabled
    /\ AfterOrbitDraw

\* The call's model matrix has a singular upper-left block.
SingularCall == mat3_det(ScaledModel(probe.arg[1], probe.arg[2], probe.arg[3])) = 0

\* On a model matrix whose upper-left 3x3 block has determinant zero,
\* normalFromMat4 returns null and leaves the output buffer as it was; on
\* any other it returns the buffer, rewritten.  A property of SpecPure.
SentinelOnSingular ==
    Returned("normalFromMat4") =>
        IF SingularCall
        THEN probe.out[1] = [returns |-> Null, out |-> StaleNormal]
        ELSE /\ probe.out[1].returns # Null
             /\ probe.out[1].out # StaleNormal

\* The sentinel was returned for a scale with a zero factor.
SentinelReturned ==
    /\ Returned("normalFromMat4")
    /\ SingularCall
    /\ probe.out[1].returns = Null

\* C22: the damped camera distance is always within [minDistance,
\* maxDistance] = [3, 40], for any interleaving of wheel events, double
\* clicks and frames.  A property of SpecReach.
C22_DistanceInRange ==
    Running =>
        /\ sys.cameraControls.distance >= 3 * Scale
        /\ sys.cameraControls.distance <= 40 * Scale
        /\ sys.cameraControls.minDistance = 3 * Scale
        /\ sys.cameraControls.maxDistance = 40 * Scale

\* The target is on the lower bound and frames have brought the damped
\* distance to within 0.1 of it.
C22_Witness ==
    /\ Running
    /\ lastOp = "frame"
    /\ sys.cameraControls.targetDistance = 3 * Scale
    /\ sys.cameraControls.distance < 3 * Scale + Lit(1, 10)

\* C23: while a drag is in progress (mouse.isDown) autoRotate is false, in
\* whatever order mousedown, mousemove, mouseup, mouseleave, dblclick and
\* frames arrive, so that no frame retargets over what a mousemove stored.
C23_NoAutoRotateWhileDragging ==
    (Running /\ sys.mouse.isDown) => ~sys.cameraControls.autoRotate

\* The diagonal of the upper-left block of a model matrix: its three scales.
AxisScale(model) == <<model[1], model[6], model[11]>>

\* The sphere draw of the call that returned: what the GPU read.
SphereDraw == probe.out[1].framebuffer[1]

\* C24: for every record, whatever its star and planet radius (zero and
\* absent included), the model matrix drawStar and drawPlanet hand to
\* normalFromMat4 is a scale within [0.5, 1.2] and [0.2, 0.8] on each axis,
\* its determinant is not zero, normalFromMat4 does not return null, and the
\* normal matrix uploaded for the sphere draw is the one computed from the
\* model matrix uploaded with it.
C24_NormalMatrixAlwaysComputed ==
    /\ Returned("drawStar") =>
          \A k \in 1..3 :
              /\ AxisScale(SphereDraw.uniforms.modelMatrix)[k] >= Lit(5, 10)
              /\ AxisScale(SphereDraw.uniforms.modelMatrix)[k] <= Lit(12, 10)
    /\ Returned("drawPlanet") =>
          \A k \in 1..3 :
              /\ AxisScale(SphereDraw.uniforms.modelMatrix)[k] >= Lit(2, 10)
              /\ AxisScale(SphereDraw.uniforms.modelMatrix)[k] <= Lit(8, 10)
    /\ (Returned("drawStar") \/ Returned("drawPlanet")) =>
          /\ SphereDraw.call = "drawElements"
          /\ mat3_det(SphereDraw.uniforms.modelMatrix) # 0
          /\ mat3_normalFromMat4_returns(StaleNormal, SphereDraw.uniforms.modelMatrix)
                = Some(SphereDraw.uniforms.normalMatrix)
          /\ SphereDraw.uniforms.normalMatrix # StaleNormal

\* A record without a planet radius has been drawn: the default radius 1
\* gives 0.1, which the clamp raises to 0.2.
C24_Witness ==
    /\ Returned("drawPlanet")
    /\ probe.arg[1] = 0
    /\ AxisScale(SphereDraw.uniforms.modelMatrix) = <<Lit(2, 10), Lit(2, 10), Lit(2, 10)>>
    /\ SphereDraw.uniforms.normalMatrix[1] = 5 * Scale

\* The view and projection matrices a frame builds from the camera and the
\* canvas it leaves behind (updateCamera lines 333-341, updateProjection).
FrameMatrices(s, cv) ==
    [viewMatrix |-> mat4_lookAt(CameraPosition(s.cameraControls),
                                s.camera.target, s.camera.up),
     projectionMatrix |->
         mat4_perspective(RoundDiv(s.camera.fov * Pi, 180 * Scale),
                          FDiv(cv.width * Scale, cv.height * Scale),
                          s.camera.near, s.camera.far)]

\* The view and projection uniforms the GPU program held at a draw.
HeldMatrices(draw) ==
    [viewMatrix |-> draw.uniforms.viewMatrix,
     projectionMatrix |-> draw.uniforms.projectionMatrix]

\* C25: at every draw of a frame, the planet's sphere and the orbit path
\* included, the view and projection uniforms are the matrices that frame
\* rebuilt; the frame's first draw is the star's, which uploaded them.
C25_DrawsUseFrameMatrices ==
    [][ (Running' /\ lastOp' \in FrameOps) =>
          /\ \A i \in 1..Len(gl'.framebuffer) :
                HeldMatrices(gl'.framebuffer[i]) = FrameMatrices(sys', canvas')
          /\ gl'.framebuffer # << >> =>
                /\ DrawSteps(trace')[1].step = "drawStar"
                /\ gl'.framebuffer[1].call = "drawElements"
                /\ gl'.framebuffer[1].uniforms.shininess = 1000 * Scale
      ]_vars

\* A frame has drawn the second record of the list on a resized canvas:
\* planet and orbit were drawn with matrices unlike those of the start.
C25_Witness ==
    /\ Running
    /\ lastOp = "frame"
    /\ page.currentPlanetIndex = 1
    /\ layout.dpr = 150
    /\ Len(gl.framebuffer) = 3
    /\ gl.framebuffer[3].call = "drawArrays"
    /\ HeldMatrices(gl.framebuffer[3]) = FrameMatrices(sys, canvas)
    /\ HeldMatrices(gl.framebuffer[3]) # FrameMatrices(NewSystem, DefaultCanvas)

\* The active intervals running the given callback.
Intervals(fn) == {tm \in page.timers : tm.fn = fn}

\* At most one interval of each kind, and the remaining time within 0..30.
TimersBounded ==
    /\ Cardinality(Intervals("countdown")) <= 1
    /\ Cardinality(Intervals("autoChange")) <= 1
    /\ page.timeRemaining \in 0..30

\* An automatic change happens with the countdown showing 0, and when the
\* countdown comes to show 0 the automatic change is due at that instant.
ChangeAtZero ==
    [][ /\ lastOp' = "autoChange" => page.countdownText = Some(0)
        /\ (lastOp' = "countdown" /\ page'.countdownText = Some(0))
              => \E tm \in Intervals("autoChange")' : tm.due = now'
      ]_vars

\* C26: countdown and automatic change stay in step through ticks, automatic
\* changes and explore clicks: at most one interval of each kind is active,
\* timeRemaining stays within [0, 30], and the automatic change happens
\* exactly when the countdown reaches 0.  A property of SpecTimers.
C26_CountdownInStep == []TimersBounded /\ ChangeAtZero

\* The azimuth and elevation of a camera: targets and damped values.
CameraAngles(cc) ==
    << cc.targetAzimuth, cc.targetElevation, cc.azimuth, cc.elevation >>

\* C17: two auto-rotating runs without input that are at the same elapsed
\* time have the same azimuth and elevation, targets and damped values,
\* whatever frames took them there.  A property of SpecReplay.
C17_ReplayByElapsedTime ==
    (Running /\ probe # Null /\ sys.time = probe.sys.time)
        => CameraAngles(sys.cameraControls) = CameraAngles(probe.sys.cameraControls)

====
